---- MODULE Spec2Model ----
(***************************************************************************)
(* Cross-source specification reconciliation of TuniTech-Advisor.          *)
(*                                                                         *)
(* The fill scripts are modelled from their Python source: the name        *)
(* normalisers and key extractors, the specification index builders, the   *)
(* matchers (exact lookup, fuzzy scan, curated lookups) and the fill tiers *)
(* (cross-source match, curated tables, brand statistics, global           *)
(* statistics).  Text is modelled character by character on TLA+ strings.  *)
(***************************************************************************)
EXTENDS Integers, Sequences, FiniteSets, TLC

(***************************************************************************)
(* Text primitives (Python str / re semantics on the characters used).     *)
(***************************************************************************)

\* The absent value of a text cell (pandas NaN read from an empty CSV cell).
NaN == "nan"

\* pd.isna on a text cell.
isna(v) == v = NaN

Ch(s, i) == SubSeq(s, i, i)

DigitChars == {"0", "1", "2", "3", "4", "5", "6", "7", "8", "9"}

UpperAlphabet == "ABCDEFGHIJKLMNOPQRSTUVWXYZ"

LowerAlphabet == "abcdefghijklmnopqrstuvwxyz"

LowerChars == {Ch(LowerAlphabet, i) : i \in 1..Len(LowerAlphabet)}

\* \w of the re module once the text is lowercased.
IsWordCh(c) == c \in DigitChars \cup LowerChars \cup {"_"}

IsDigit(c) == c \in DigitChars

IsSpace(c) == c = " "

\* str.lower() of one character.
LowerCh(c) ==
    IF \E i \in 1..Len(UpperAlphabet) : Ch(UpperAlphabet, i) = c
    THEN Ch(LowerAlphabet, CHOOSE i \in 1..Len(UpperAlphabet) : Ch(UpperAlphabet, i) = c)
    ELSE c

\* The text obtained by applying a character map to s[a..b], built by halves
\* so that the evaluation depth stays logarithmic in the length.
RECURSIVE LowerRange(_, _, _)
LowerRange(s, a, b) ==
    IF a > b THEN ""
    ELSE IF a = b THEN LowerCh(Ch(s, a))
    ELSE LowerRange(s, a, (a + b) \div 2) \o LowerRange(s, (a + b) \div 2 + 1, b)

\* str.lower()
Lower(s) == LowerRange(s, 1, Len(s))

\* s[i:].startswith(t), positions counted from 1.
StartsAt(s, i, t) ==
    i >= 1 /\ i + Len(t) - 1 <= Len(s) /\ SubSeq(s, i, i + Len(t) - 1) = t

\* t in s (Python substring test; the empty string is in every string).
Contains(s, t) == \E i \in 1..(Len(s) + 1) : StartsAt(s, i, t)

\* End (exclusive) of the longest run, starting at i, of characters for
\* which In holds (a greedy \d*, \s* or \w*).
RunEnd(s, i, In(_)) ==
    IF i < 1 \/ i > Len(s) THEN i
    ELSE CHOOSE j \in i..(Len(s) + 1) :
             /\ \A k \in i..(j - 1) : In(Ch(s, k))
             /\ (j > Len(s) \/ ~In(Ch(s, j)))

DigitsEnd(s, i) == RunEnd(s, i, IsDigit)

SpacesEnd(s, i) == RunEnd(s, i, IsSpace)

WordEnd(s, i) == RunEnd(s, i, IsWordCh)

\* \b at the gap before position i.
Boundary(s, i) ==
    LET before == i > 1 /\ i - 1 <= Len(s) /\ IsWordCh(Ch(s, i - 1))
        after  == i >= 1 /\ i <= Len(s) /\ IsWordCh(Ch(s, i))
    IN  before # after

\* str.strip()
Strip(s) ==
    IF \A k \in 1..Len(s) : IsSpace(Ch(s, k)) THEN ""
    ELSE LET a == CHOOSE k \in 1..Len(s) :
                      ~IsSpace(Ch(s, k)) /\ \A j \in 1..(k - 1) : IsSpace(Ch(s, j))
             b == CHOOSE k \in 1..Len(s) :
                      ~IsSpace(Ch(s, k)) /\ \A j \in (k + 1)..Len(s) : IsSpace(Ch(s, j))
         IN  SubSeq(s, a, b)

NotSpace(c) == ~IsSpace(c)

\* str.split(): the words of s, in order.
RECURSIVE SplitFrom(_, _)
SplitFrom(s, i) ==
    LET b == SpacesEnd(s, i)
        e == RunEnd(s, b, NotSpace)
    IN  IF b > Len(s) THEN <<>> ELSE <<SubSeq(s, b, e - 1)>> \o SplitFrom(s, e)

Split(s) == SplitFrom(s, 1)

\* set(s.split())
WordSet(s) == {Split(s)[i] : i \in 1..Len(Split(s))}

\* ' '.join(parts)
RECURSIVE JoinFrom(_, _)
JoinFrom(parts, k) ==
    IF k > Len(parts) THEN ""
    ELSE IF k = Len(parts) THEN parts[k]
    ELSE parts[k] \o " " \o JoinFrom(parts, k + 1)

JoinWords(parts) == JoinFrom(parts, 1)

\* re.sub(r'\s+', ' ', s).strip()
CollapseSpaces(s) == JoinWords(Split(s))

\* re.sub(r'[^\w\s]', ' ', s), built by halves like Lower.
RECURSIVE PunctToSpaceRange(_, _, _)
PunctToSpaceRange(s, a, b) ==
    IF a > b THEN ""
    ELSE IF a = b
    THEN (IF IsWordCh(Ch(s, a)) \/ IsSpace(Ch(s, a)) THEN Ch(s, a) ELSE " ")
    ELSE PunctToSpaceRange(s, a, (a + b) \div 2)
             \o PunctToSpaceRange(s, (a + b) \div 2 + 1, b)

PunctToSpace(s) == PunctToSpaceRange(s, 1, Len(s))

\* re.sub(pattern, repl, s) for a pattern whose match at a position is given
\* by End(s, i): the end (exclusive) of the match starting at i, or 0 when
\* the pattern does not match there.  Matches are taken leftmost, left to
\* right: the text up to the next match is kept, the match is replaced.
SubstituteAll(s, End(_, _), repl) ==
    LET Hit(i) == End(s, i) > i
        Rest[i \in 1..(Len(s) + 1)] ==
            IF \A p \in i..Len(s) : ~Hit(p) THEN SubSeq(s, i, Len(s))
            ELSE LET p == CHOOSE q \in i..Len(s) :
                              Hit(q) /\ \A r \in i..(q - 1) : ~Hit(r)
                 IN  SubSeq(s, i, p - 1) \o repl \o Rest[End(s, p)]
    IN  Rest[1]

\* re.sub(pattern, '', s)
DeleteAll(s, End(_, _)) == SubstituteAll(s, End, "")

\* rf'\b{w}\b' at position i: w is made of \w characters, so it matches
\* exactly when the maximal run of \w characters starting at i is w.
WholeWordEnd(s, i, w) ==
    IF Boundary(s, i) /\ StartsAt(s, i, w) /\ WordEnd(s, i) = i + Len(w)
    THEN i + Len(w) ELSE 0

\* for color in colors: name = re.sub(rf'\b{color}\b', '', name)
\* A deletion removes a whole word and leaves the non-word characters around
\* it, so it neither creates nor destroys an occurrence of another word: the
\* loop over the words equals one pass that deletes every listed whole word.
RemoveWords(s, words) ==
    LET End(t, i) ==
            IF \E k \in 1..Len(words) : WholeWordEnd(t, i, words[k]) > 0
            THEN WordEnd(t, i) ELSE 0
    IN  DeleteAll(s, End)

\* End of (?:gb|go) at i, or 0.
UnitEnd(s, i, units) ==
    IF \E u \in units : StartsAt(s, i, u) THEN i + 2 ELSE 0

\* r'^smartphone\s+' removed.
StripSmartphonePrefix(s) ==
    IF StartsAt(s, 1, "smartphone") /\ SpacesEnd(s, 11) > 11
    THEN SubSeq(s, SpacesEnd(s, 11), Len(s))
    ELSE s

\* r'\d+/\d+' at i.
SlashPairEnd(s, i) ==
    LET d == DigitsEnd(s, i)
    IN  IF d > i /\ StartsAt(s, d, "/") /\ DigitsEnd(s, d + 1) > d + 1
        THEN DigitsEnd(s, d + 1) ELSE 0

\* r'\b[45]g\b' at i (case-insensitive, on lowercased text).
NetworkTokenEnd(s, i) ==
    IF (StartsAt(s, i, "4g") \/ StartsAt(s, i, "5g")) /\ Boundary(s, i) /\ Boundary(s, i + 2)
    THEN i + 2 ELSE 0


(***************************************************************************)
(* fill_bestphone_enhanced.py: normaliser and key extractor.               *)
(***************************************************************************)

EnhancedColors ==
    << "noir", "blanc", "bleu", "vert", "rose", "gold", "silver", "gris",
       "violet", "rouge", "orange", "cyan", "black", "white", "green", "blue",
       "pink", "grey", "gray", "purple", "lavender", "lime", "light", "natural",
       "navy", "teal", "ultramarine", "glacier", "titanium", "midnight",
       "starlight", "graphite", "deep", "ice", "dark", "menthe" >>

\* r'\d+\s*(?:units)\s*[seps]?\s*\d*\s*(?:units)' at i, the closing unit
\* optional unless need2.  Everything after the first unit is greedy and no
\* shorter choice lets a later part match, so backtracking changes nothing.
StoragePatternEnd(s, i, units, seps, need2) ==
    LET d  == DigitsEnd(s, i)
        u  == UnitEnd(s, SpacesEnd(s, d), units)
        a  == SpacesEnd(s, u)
        b  == IF a <= Len(s) /\ Ch(s, a) \in seps THEN a + 1 ELSE a
        c  == SpacesEnd(s, DigitsEnd(s, SpacesEnd(s, b)))
        u2 == UnitEnd(s, c, units)
    IN  IF d > i /\ u > 0
        THEN (IF u2 > 0 THEN u2 ELSE IF need2 THEN 0 ELSE c)
        ELSE 0

\* r'\d+\s*(?:gb|go)\s*/?\s*\d*\s*(?:gb|go)?' at i.
StorageEnd(s, i) == StoragePatternEnd(s, i, {"gb", "go"}, {"/"}, FALSE)

normalize_model(name) ==
    IF isna(name) THEN ""
    ELSE LET n1 == StripSmartphonePrefix(Strip(Lower(name)))
             n2 == RemoveWords(n1, EnhancedColors)
             n3 == DeleteAll(n2, StorageEnd)
             n4 == DeleteAll(n3, SlashPairEnd)
             n5 == DeleteAll(n4, NetworkTokenEnd)
         IN  CollapseSpaces(PunctToSpace(n5))


\* re.search: the leftmost position at which Hit(s, i) holds, or 0.
FirstPos(s, Hit(_, _)) ==
    IF \E i \in 1..Len(s) : Hit(s, i)
    THEN CHOOSE i \in 1..Len(s) : Hit(s, i) /\ \A j \in 1..(i - 1) : ~Hit(s, j)
    ELSE 0

\* Start of the digits of lit\s*(\d+) when it matches at i, else 0.
DigitsAfter(s, i, lit) ==
    LET j == SpacesEnd(s, i + Len(lit))
    IN  IF StartsAt(s, i, lit) /\ DigitsEnd(s, j) > j THEN j ELSE 0

\* r'iphone\s*(\d+)...': group(1).
IphoneHit(s, i) == DigitsAfter(s, i, "iphone") > 0

IphoneGroup(s) ==
    LET j == DigitsAfter(s, FirstPos(s, IphoneHit), "iphone")
    IN  SubSeq(s, j, DigitsEnd(s, j) - 1)

\* r'(samsung\s*)?galaxy\s*([as]\d+)...': start of group(2) at i, else 0.
\* The optional prefix only moves the start of the match, never group(2).
GalaxyModelStart(s, i) ==
    LET j == SpacesEnd(s, i + 6)
    IN  IF /\ StartsAt(s, i, "galaxy")
           /\ (StartsAt(s, j, "a") \/ StartsAt(s, j, "s"))
           /\ DigitsEnd(s, j + 1) > j + 1
        THEN j ELSE 0

GalaxyHit(s, i) == GalaxyModelStart(s, i) > 0

GalaxyGroup(s) ==
    LET j == GalaxyModelStart(s, FirstPos(s, GalaxyHit))
    IN  SubSeq(s, j, DigitsEnd(s, j + 1) - 1)

\* r'(xiaomi\s*)?(redmi\s*)?note?\s*(\d+)...': start of group(3) at i, else 0.
\* Both prefixes are optional, so the pattern is found wherever "not" or
\* "note", optional spaces and digits are found.
NoteDigitsStart(s, i) ==
    LET e == IF StartsAt(s, i + 3, "e") THEN i + 4 ELSE i + 3
        j == SpacesEnd(s, e)
    IN  IF StartsAt(s, i, "not") /\ DigitsEnd(s, j) > j THEN j ELSE 0

NoteHit(s, i) == NoteDigitsStart(s, i) > 0

NoteGroup(s) ==
    LET j == NoteDigitsStart(s, FirstPos(s, NoteHit))
    IN  SubSeq(s, j, DigitsEnd(s, j) - 1)

\* r'honor\s*(x?\d+\w*)': end (exclusive) of group(1) at i, else 0.
HonorGroupStart(s, i) == SpacesEnd(s, i + 5)

HonorGroupEnd(s, i) ==
    LET j == HonorGroupStart(s, i)
        k == IF StartsAt(s, j, "x") THEN j + 1 ELSE j
    IN  IF StartsAt(s, i, "honor") /\ DigitsEnd(s, k) > k
        THEN WordEnd(s, DigitsEnd(s, k)) ELSE 0

HonorHit(s, i) == HonorGroupEnd(s, i) > 0

HonorGroup(s) ==
    LET i == FirstPos(s, HonorHit)
    IN  SubSeq(s, HonorGroupStart(s, i), HonorGroupEnd(s, i) - 1)

\* r'infinix\s*(\w+\s*\d+\w*)': end (exclusive) of group(1) at i, else 0.
\* \w+ is greedy: it takes the whole word when digits follow the spaces
\* after it, and otherwise gives back characters until a digit of the word
\* itself starts \d+.
InfinixGroupStart(s, i) == SpacesEnd(s, i + 7)

InfinixGroupEnd(s, i) ==
    LET j == InfinixGroupStart(s, i)
        e == WordEnd(s, j)
        d == SpacesEnd(s, e)
    IN  IF ~StartsAt(s, i, "infinix") \/ e = j THEN 0
        ELSE IF DigitsEnd(s, d) > d THEN WordEnd(s, DigitsEnd(s, d))
        ELSE IF \E k \in (j + 1)..(e - 1) : IsDigit(Ch(s, k)) THEN e
        ELSE 0

InfinixHit(s, i) == InfinixGroupEnd(s, i) > 0

InfinixGroup(s) ==
    LET i == FirstPos(s, InfinixHit)
    IN  SubSeq(s, InfinixGroupStart(s, i), InfinixGroupEnd(s, i) - 1)

\* (' pro' if 'pro' in normalized else '')
Suffix(cond, word) == IF cond THEN " " \o word ELSE ""

\* fill_bestphone_enhanced.extract_model_key, after its first statement
\* normalized = normalize_model(name).
KeyOfNormalized(name, normalized) ==
        IF FirstPos(normalized, IphoneHit) > 0
        THEN "iphone " \o IphoneGroup(normalized)
                 \o Suffix(Contains(normalized, "pro"), "pro")
                 \o Suffix(Contains(normalized, "max"), "max")
                 \o Suffix(Contains(normalized, "plus"), "plus")
                 \o Suffix(Contains(normalized, "mini"), "mini")
        ELSE IF FirstPos(normalized, GalaxyHit) > 0
        THEN "samsung galaxy " \o GalaxyGroup(normalized)
                 \o Suffix(Contains(normalized, "ultra"), "ultra")
                 \o Suffix(Contains(normalized, "fe"), "fe")
                 \o Suffix(Contains(normalized, "plus") \/ Contains(Lower(name), "+"), "plus")
        ELSE IF FirstPos(normalized, NoteHit) > 0
        THEN "redmi note " \o NoteGroup(normalized)
                 \o Suffix(Contains(normalized, "pro"), "pro")
        ELSE IF FirstPos(normalized, HonorHit) > 0
        THEN "honor " \o HonorGroup(normalized)
        ELSE IF FirstPos(normalized, InfinixHit) > 0
        THEN "infinix " \o InfinixGroup(normalized)
        ELSE normalized

\* fill_bestphone_enhanced.extract_model_key
extract_model_key(name) == KeyOfNormalized(name, normalize_model(name))


(***************************************************************************)
(* fill_bestphone_specs.py and fill_specs_from_existing.py: normalisers.   *)
(***************************************************************************)

\* The colour list of fill_bestphone_specs.normalize_model_name.  Its two
\* accented entries ('fonce', 'satine' with acute accents) are left out: the
\* names of this model are ASCII, so they never match.
BestphoneColors ==
    << "noir", "blanc", "bleu", "vert", "rose", "gold", "silver", "gris",
       "violet", "rouge", "orange", "cyan", "marron", "dark",
       "black", "white", "green", "blue", "pink", "grey", "gray", "purple",
       "menthe", "midnight", "titanium", "marine", "stellaire",
       "twilight", "lavender", "lime", "light", "natural", "navy", "teal",
       "ultramarine", "glacier", "starlight", "graphite", "deep", "ice",
       "esim", "dual", "sim" >>

\* The colour list of fill_specs_from_existing.normalize_model_name (same
\* remark on its accented entries).
ExistingColors ==
    << "noir", "blanc", "bleu", "vert", "rose", "gold", "silver", "gris",
       "violet", "rouge", "orange", "cyan", "marron", "dark",
       "black", "white", "green", "blue", "pink", "grey", "gray", "purple",
       "menthe", "midnight", "titanium", "marine", "stellaire",
       "twilight" >>

\* r'\d+\s*(?:gb|go)\s*[\+\/]?\s*\d*\s*(?:gb|go)?' at i.
StoragePlusEnd(s, i) == StoragePatternEnd(s, i, {"gb", "go"}, {"+", "/"}, FALSE)

\* r'\d+\s*go\s*[\+\/]?\s*\d*\s*go' at i.
StorageGoGoEnd(s, i) == StoragePatternEnd(s, i, {"go"}, {"+", "/"}, TRUE)

\* r'\d+\s*go' at i.
StorageGoEnd(s, i) ==
    LET d == DigitsEnd(s, i)
    IN  IF d > i THEN UnitEnd(s, SpacesEnd(s, d), {"go"}) ELSE 0

\* r'\d+\s*/\s*\d+' at i.
SpacedSlashPairEnd(s, i) ==
    LET d == DigitsEnd(s, i)
        a == SpacesEnd(s, d)
        b == SpacesEnd(s, a + 1)
    IN  IF d > i /\ StartsAt(s, a, "/") /\ DigitsEnd(s, b) > b
        THEN DigitsEnd(s, b) ELSE 0

\* fill_bestphone_specs.normalize_model_name
normalize_model_name(model_name) ==
    IF isna(model_name) THEN ""
    ELSE LET n1 == StripSmartphonePrefix(Lower(model_name))
             n2 == RemoveWords(n1, BestphoneColors)
             n3 == DeleteAll(n2, StoragePlusEnd)
             n4 == DeleteAll(n3, SpacedSlashPairEnd)
             n5 == DeleteAll(n4, NetworkTokenEnd)
         IN  CollapseSpaces(PunctToSpace(n5))

\* fill_specs_from_existing.normalize_model_name, which extract_base_model
\* returns unchanged.
extract_base_model(model_name) ==
    IF isna(model_name) THEN ""
    ELSE LET n1 == StripSmartphonePrefix(Lower(model_name))
             n2 == RemoveWords(n1, ExistingColors)
             n3 == DeleteAll(n2, StorageGoGoEnd)
             n4 == DeleteAll(n3, StorageGoEnd)
             n5 == DeleteAll(n4, SpacedSlashPairEnd)
         IN  CollapseSpaces(PunctToSpace(n5))

(***************************************************************************)
(* fill_known_specs.py: key extractor.                                     *)
(***************************************************************************)

KnownColors ==
    << "noir", "blanc", "bleu", "vert", "rose", "gold", "silver", "gris",
       "violet", "rouge", "orange", "black", "white", "green", "blue",
       "pink", "grey", "gray", "purple", "lavender", "lime", "light",
       "natural", "navy", "teal", "ultramarine", "glacier", "titanium",
       "midnight", "starlight", "graphite", "deep", "ice" >>

\* r'(?:samsung\s*)?galaxy\s*([asz])(\d+)...': start of group(1) at i, else 0.
KnownGalaxyStart(s, i) ==
    LET j == SpacesEnd(s, i + 6)
    IN  IF /\ StartsAt(s, i, "galaxy")
           /\ \E c \in {"a", "s", "z"} : StartsAt(s, j, c)
           /\ DigitsEnd(s, j + 1) > j + 1
        THEN j ELSE 0

KnownGalaxyHit(s, i) == KnownGalaxyStart(s, i) > 0

KnownGalaxyGroup(s) ==
    LET j == KnownGalaxyStart(s, FirstPos(s, KnownGalaxyHit))
    IN  SubSeq(s, j, DigitsEnd(s, j + 1) - 1)

\* r'redmi\s*note\s*(\d+)...': start of group(1) at i, else 0.
RedmiNoteStart(s, i) ==
    LET j == SpacesEnd(s, i + 5)
    IN  IF StartsAt(s, i, "redmi") THEN DigitsAfter(s, j, "note") ELSE 0

RedmiNoteHit(s, i) == RedmiNoteStart(s, i) > 0

RedmiNoteGroup(s) ==
    LET j == RedmiNoteStart(s, FirstPos(s, RedmiNoteHit))
    IN  SubSeq(s, j, DigitsEnd(s, j) - 1)

\* r'honor\s*(magic\d*\s*lite|x?\d+\w*|\d+\s*\w*)': end (exclusive) of
\* group(1) at i, else 0.  The third alternative needs digits where the
\* second already matched, so it is never the one taken.
KnownHonorEnd(s, i) ==
    LET j == HonorGroupStart(s, i)
        l == SpacesEnd(s, DigitsEnd(s, j + 5))
    IN  IF ~StartsAt(s, i, "honor") THEN 0
        ELSE IF StartsAt(s, j, "magic") /\ StartsAt(s, l, "lite") THEN l + 4
        ELSE HonorGroupEnd(s, i)

KnownHonorHit(s, i) == KnownHonorEnd(s, i) > 0

KnownHonorGroup(s) ==
    LET i == FirstPos(s, KnownHonorHit)
    IN  Strip(SubSeq(s, HonorGroupStart(s, i), KnownHonorEnd(s, i) - 1))

InfinixSeries == <<"hot", "note", "zero">>

\* r'infinix\s*(hot|note|zero)\s*(\d+)...': the series matched at i, else "".
KnownInfinixSeries(s, i) ==
    LET j == InfinixGroupStart(s, i)
        ok(w) == DigitsAfter(s, j, w) > 0
    IN  IF StartsAt(s, i, "infinix") /\ \E k \in 1..Len(InfinixSeries) : ok(InfinixSeries[k])
        THEN InfinixSeries[CHOOSE k \in 1..Len(InfinixSeries) :
                 ok(InfinixSeries[k]) /\ \A m \in 1..(k - 1) : ~ok(InfinixSeries[m])]
        ELSE ""

KnownInfinixHit(s, i) == KnownInfinixSeries(s, i) # ""

KnownInfinixGroups(s) ==
    LET i == FirstPos(s, KnownInfinixHit)
        w == KnownInfinixSeries(s, i)
        j == DigitsAfter(s, InfinixGroupStart(s, i), w)
    IN  w \o " " \o SubSeq(s, j, DigitsEnd(s, j) - 1)

\* End (exclusive) of the longest run of [a-z] starting at i.

IsLowerLetter(c) == c \in LowerChars

LettersEnd(s, i) == RunEnd(s, i, IsLowerLetter)

\* r'oppo\s*([a-z]+\d*)': end (exclusive) of group(1) at i, else 0.
OppoGroupStart(s, i) == SpacesEnd(s, i + 4)

OppoGroupEnd(s, i) ==
    LET j == OppoGroupStart(s, i)
    IN  IF StartsAt(s, i, "oppo") /\ LettersEnd(s, j) > j
        THEN DigitsEnd(s, LettersEnd(s, j)) ELSE 0

OppoHit(s, i) == OppoGroupEnd(s, i) > 0

OppoGroup(s) ==
    LET i == FirstPos(s, OppoHit)
    IN  SubSeq(s, OppoGroupStart(s, i), OppoGroupEnd(s, i) - 1)

\* r'\besim\b' at i.
EsimEnd(s, i) == WholeWordEnd(s, i, "esim")

\* fill_known_specs.extract_model_key, up to the whitespace clean-up.
KnownNormalized(name) ==
    LET n1 == RemoveWords(Strip(Lower(name)), KnownColors)
        n2 == DeleteAll(n1, StorageEnd)
        n3 == DeleteAll(n2, SlashPairEnd)
        n4 == DeleteAll(n3, NetworkTokenEnd)
        n5 == DeleteAll(n4, EsimEnd)
    IN  CollapseSpaces(PunctToSpace(n5))

\* fill_known_specs.extract_model_key, the brand patterns applied to the
\* normalised name n.
KnownKeyOf(n) ==
    LET has(w) == Contains(n, w)
    IN  IF FirstPos(n, IphoneHit) > 0
    THEN "iphone " \o IphoneGroup(n)
             \o (IF has("pro") /\ has("max") THEN " pro max"
                 ELSE IF has("pro") THEN " pro"
                 ELSE IF has("plus") THEN " plus"
                 ELSE IF has("mini") THEN " mini"
                 ELSE "")
    ELSE IF FirstPos(n, KnownGalaxyHit) > 0
    THEN "samsung galaxy " \o KnownGalaxyGroup(n)
             \o (IF has("ultra") THEN " ultra"
                 ELSE IF has("plus") \/ has("+") THEN " plus"
                 ELSE IF has("fe") THEN " fe"
                 ELSE "")
    ELSE IF FirstPos(n, RedmiNoteHit) > 0
    THEN "redmi note " \o RedmiNoteGroup(n)
             \o (IF has("pro") /\ has("plus") THEN " pro plus"
                 ELSE IF has("pro") THEN " pro"
                 ELSE IF has("plus") THEN " plus"
                 ELSE "")
    ELSE IF FirstPos(n, KnownHonorHit) > 0
    THEN "honor " \o KnownHonorGroup(n)
    ELSE IF FirstPos(n, KnownInfinixHit) > 0
    THEN "infinix " \o KnownInfinixGroups(n) \o Suffix(has("pro"), "pro")
    ELSE IF FirstPos(n, OppoHit) > 0
    THEN "oppo " \o OppoGroup(n)
    ELSE n

\* fill_known_specs.extract_model_key
known_extract_model_key(name) ==
    IF isna(name) THEN "" ELSE KnownKeyOf(KnownNormalized(name))

(***************************************************************************)
(* fill_missing_smart.py: name cleaner.                                    *)
(***************************************************************************)

\* The prefixes of clean_name_for_matching, in order (its accented
\* 'telephone ' entry is left out: the names of this model are ASCII).
SmartPrefixes == <<"smartphone ", "telephone ", "mobile ">>

SmartBrands ==
    {"samsung", "apple", "xiaomi", "redmi", "poco", "oppo", "realme",
     "vivo", "huawei", "honor", "infinix", "tecno", "itel"}

SmartColors ==
    << "noir", "bleu", "vert", "blanc", "gris", "or", "rose", "violet",
       "rouge", "black", "blue", "green", "white", "grey", "gray", "gold",
       "pink", "purple", "red" >>

\* for prefix in prefixes: if name.startswith(prefix): name = name[len(prefix):]
RECURSIVE StripPrefixes(_, _)
StripPrefixes(s, k) ==
    IF k > Len(SmartPrefixes) THEN s
    ELSE StripPrefixes(IF StartsAt(s, 1, SmartPrefixes[k])
                       THEN SubSeq(s, Len(SmartPrefixes[k]) + 1, Len(s))
                       ELSE s, k + 1)

\* A brand repeated as the first two words loses its first occurrence.
DropBrandDuplicate(s) ==
    LET parts == Split(s)
    IN  IF Len(parts) > 1 /\ parts[1] \in SmartBrands /\ parts[2] = parts[1]
        THEN JoinWords(Tail(parts))
        ELSE s

\* r'\b\d+\s*(go|gb|tb)\b' at i.
SmartStorageEnd(s, i) ==
    LET d == DigitsEnd(s, i)
        u == UnitEnd(s, SpacesEnd(s, d), {"go", "gb", "tb"})
    IN  IF d > i /\ Boundary(s, i) /\ u > 0 /\ Boundary(s, u) THEN u ELSE 0

\* fill_missing_smart.clean_name_for_matching
clean_name_for_matching(name) ==
    IF isna(name) THEN ""
    ELSE LET n1 == DropBrandDuplicate(StripPrefixes(Lower(name), 1))
             n2 == DeleteAll(n1, SmartStorageEnd)
             n3 == RemoveWords(n2, SmartColors)
         IN  CollapseSpaces(PunctToSpace(n3))

(***************************************************************************)
(* Cell values.  A cell of a table is represented by the text str(cell) of  *)
(* its Python value: a float 5000.0 by "5000.0", an int by "5000", a        *)
(* missing value (float nan) by "nan", None by "None".  Numbers are read    *)
(* from that text into integers scaled by Scale, which holds every value    *)
(* the medians of whole numbers produce (halves, quarters, ...), exactly as *)
(* binary floating point does.                                              *)
(***************************************************************************)

None == "None"

Scale == 2 ^ 6

DigitString == "0123456789"

DigitValue(c) == (CHOOSE k \in 1..10 : Ch(DigitString, k) = c) - 1

RECURSIVE ParseInt(_)
ParseInt(t) ==
    IF t = "" THEN 0
    ELSE 10 * ParseInt(SubSeq(t, 1, Len(t) - 1)) + DigitValue(Ch(t, Len(t)))

RECURSIVE IntText(_)
IntText(n) ==
    IF n < 10 THEN Ch(DigitString, n + 1)
    ELSE IntText(n \div 10) \o Ch(DigitString, (n % 10) + 1)

IsIntText(t) == t # "" /\ DigitsEnd(t, 1) = Len(t) + 1

\* The text of a decimal number: digits, or digits "." digits.
IsNumberText(t) ==
    \/ IsIntText(t)
    \/ LET d == DigitsEnd(t, 1)
       IN  /\ d > 1 /\ d < Len(t) /\ Ch(t, d) = "."
           /\ DigitsEnd(t, d + 1) = Len(t) + 1

RECURSIVE Pow10(_)
Pow10(n) == IF n = 0 THEN 1 ELSE 10 * Pow10(n - 1)

\* float(t), scaled by Scale.
ParseFloat(t) ==
    LET d == DigitsEnd(t, 1)
    IN  IF d > Len(t) THEN Scale * ParseInt(t)
        ELSE Scale * ParseInt(SubSeq(t, 1, d - 1))
                 + (Scale * ParseInt(SubSeq(t, d + 1, Len(t)))) \div Pow10(Len(t) - d)

\* The decimal digits of frac / Scale.
RECURSIVE FractionText(_)
FractionText(frac) ==
    IF frac = 0 THEN ""
    ELSE IntText((10 * frac) \div Scale) \o FractionText((10 * frac) % Scale)

\* str(x) of a float x (scaled): "5000.0", "4342.5".
FormatFloat(x) ==
    IntText(x \div Scale) \o "."
        \o (IF x % Scale = 0 THEN "0" ELSE FractionText(x % Scale))

\* The float a number becomes when it is stored in a float64 column.
AsFloat(t) == FormatFloat(ParseFloat(t))

\* bool(v) of a cell value or of None (a float nan is true).
Truthy(v) == v # "" /\ v # None

\* pd.notna(v) and str(v).strip()
Valid(v) == ~isna(v) /\ v # None /\ Strip(v) # ""

\* pd.isna(v) or str(v).strip() == ''
Missing(v) == isna(v) \/ Strip(v) = ""

(***************************************************************************)
(* The curated tables, in the order of their dict literals, projected on    *)
(* the specification columns the model carries.                             *)
(***************************************************************************)

\* One item of PHONE_SPECS_DB: model -> {battery_mah, camera_rear_mp, network}
PhoneEntry(model, battery, camera, network) ==
    [key |-> model,
     specs |-> [battery_mah |-> battery, camera_rear_mp |-> camera, network |-> network]]

PHONE_SPECS_DB ==
    <<
      PhoneEntry("galaxy s24 ultra", "5000", "200", "5G"),
      PhoneEntry("galaxy s24+", "4900", "50", "5G"),
      PhoneEntry("galaxy s24", "4000", "50", "5G"),
      PhoneEntry("galaxy s23 ultra", "5000", "200", "5G"),
      PhoneEntry("galaxy s23+", "4700", "50", "5G"),
      PhoneEntry("galaxy s23", "3900", "50", "5G"),
      PhoneEntry("galaxy s22 ultra", "5000", "108", "5G"),
      PhoneEntry("galaxy s22+", "4500", "50", "5G"),
      PhoneEntry("galaxy s22", "3700", "50", "5G"),
      PhoneEntry("galaxy s21 ultra", "5000", "108", "5G"),
      PhoneEntry("galaxy s21+", "4800", "64", "5G"),
      PhoneEntry("galaxy s21", "4000", "64", "5G"),
      PhoneEntry("galaxy s21 fe", "4500", "12", "5G"),
      PhoneEntry("galaxy a55", "5000", "50", "5G"),
      PhoneEntry("galaxy a54", "5000", "50", "5G"),
      PhoneEntry("galaxy a53", "5000", "64", "5G"),
      PhoneEntry("galaxy a52", "4500", "64", "4G"),
      PhoneEntry("galaxy a35", "5000", "50", "5G"),
      PhoneEntry("galaxy a34", "5000", "48", "5G"),
      PhoneEntry("galaxy a33", "5000", "48", "5G"),
      PhoneEntry("galaxy a25", "5000", "50", "5G"),
      PhoneEntry("galaxy a24", "5000", "50", "4G"),
      PhoneEntry("galaxy a23", "5000", "50", "4G"),
      PhoneEntry("galaxy a15", "5000", "50", "5G"),
      PhoneEntry("galaxy a14", "5000", "50", "4G"),
      PhoneEntry("galaxy a13", "5000", "50", "4G"),
      PhoneEntry("galaxy a05s", "5000", "50", "4G"),
      PhoneEntry("galaxy a05", "5000", "50", "4G"),
      PhoneEntry("galaxy a04", "5000", "50", "4G"),
      PhoneEntry("galaxy a04s", "5000", "50", "4G"),
      PhoneEntry("galaxy m55", "5000", "50", "5G"),
      PhoneEntry("galaxy m54", "6000", "108", "5G"),
      PhoneEntry("galaxy m34", "6000", "50", "5G"),
      PhoneEntry("galaxy m14", "6000", "50", "5G"),
      PhoneEntry("galaxy z fold5", "4400", "50", "5G"),
      PhoneEntry("galaxy z fold4", "4400", "50", "5G"),
      PhoneEntry("galaxy z fold3", "4400", "12", "5G"),
      PhoneEntry("galaxy z flip5", "3700", "12", "5G"),
      PhoneEntry("galaxy z flip4", "3700", "12", "5G"),
      PhoneEntry("iphone 15 pro max", "4441", "48", "5G"),
      PhoneEntry("iphone 15 pro", "3274", "48", "5G"),
      PhoneEntry("iphone 15 plus", "4383", "48", "5G"),
      PhoneEntry("iphone 15", "3349", "48", "5G"),
      PhoneEntry("iphone 14 pro max", "4323", "48", "5G"),
      PhoneEntry("iphone 14 pro", "3200", "48", "5G"),
      PhoneEntry("iphone 14 plus", "4325", "12", "5G"),
      PhoneEntry("iphone 14", "3279", "12", "5G"),
      PhoneEntry("iphone 13 pro max", "4352", "12", "5G"),
      PhoneEntry("iphone 13 pro", "3095", "12", "5G"),
      PhoneEntry("iphone 13", "3240", "12", "5G"),
      PhoneEntry("iphone 13 mini", "2438", "12", "5G"),
      PhoneEntry("iphone 12 pro max", "3687", "12", "5G"),
      PhoneEntry("iphone 12 pro", "2815", "12", "5G"),
      PhoneEntry("iphone 12", "2815", "12", "5G"),
      PhoneEntry("iphone 12 mini", "2227", "12", "5G"),
      PhoneEntry("iphone 11 pro max", "3969", "12", "4G"),
      PhoneEntry("iphone 11 pro", "3046", "12", "4G"),
      PhoneEntry("iphone 11", "3110", "12", "4G"),
      PhoneEntry("iphone se 2022", "2018", "12", "5G"),
      PhoneEntry("iphone se 2020", "1821", "12", "4G"),
      PhoneEntry("xiaomi 14 ultra", "5000", "50", "5G"),
      PhoneEntry("xiaomi 14", "4610", "50", "5G"),
      PhoneEntry("xiaomi 13 ultra", "5000", "50", "5G"),
      PhoneEntry("xiaomi 13 pro", "4820", "50", "5G"),
      PhoneEntry("xiaomi 13", "4500", "50", "5G"),
      PhoneEntry("xiaomi 13 lite", "4500", "50", "5G"),
      PhoneEntry("xiaomi 12 pro", "4600", "50", "5G"),
      PhoneEntry("xiaomi 12", "4500", "50", "5G"),
      PhoneEntry("xiaomi 11t pro", "5000", "108", "5G"),
      PhoneEntry("xiaomi 11t", "5000", "108", "5G"),
      PhoneEntry("xiaomi 11 lite", "4250", "64", "5G"),
      PhoneEntry("redmi note 13 pro+", "5000", "200", "5G"),
      PhoneEntry("redmi note 13 pro", "5100", "200", "4G"),
      PhoneEntry("redmi note 13", "5000", "108", "4G"),
      PhoneEntry("redmi note 12 pro+", "5000", "200", "5G"),
      PhoneEntry("redmi note 12 pro", "5000", "50", "5G"),
      PhoneEntry("redmi note 12", "5000", "50", "4G"),
      PhoneEntry("redmi note 11 pro+", "4500", "108", "5G"),
      PhoneEntry("redmi note 11 pro", "5000", "108", "4G"),
      PhoneEntry("redmi note 11", "5000", "50", "4G"),
      PhoneEntry("redmi 13c", "5000", "50", "4G"),
      PhoneEntry("redmi 12", "5000", "50", "4G"),
      PhoneEntry("redmi a3", "5000", "8", "4G"),
      PhoneEntry("redmi a2", "5000", "8", "4G"),
      PhoneEntry("poco f5 pro", "5160", "64", "5G"),
      PhoneEntry("poco f5", "5000", "64", "5G"),
      PhoneEntry("poco x6 pro", "5000", "64", "5G"),
      PhoneEntry("poco x6", "5100", "64", "5G"),
      PhoneEntry("poco x5 pro", "5000", "108", "5G"),
      PhoneEntry("poco x5", "5000", "48", "5G"),
      PhoneEntry("poco m6 pro", "5000", "64", "4G"),
      PhoneEntry("poco m5", "5000", "50", "4G"),
      PhoneEntry("poco c65", "5000", "50", "4G"),
      PhoneEntry("honor magic6 pro", "5600", "50", "5G"),
      PhoneEntry("honor magic5 pro", "5100", "50", "5G"),
      PhoneEntry("honor 90", "5000", "200", "5G"),
      PhoneEntry("honor 90 lite", "4500", "100", "4G"),
      PhoneEntry("honor x9b", "5800", "108", "5G"),
      PhoneEntry("honor x8b", "4500", "108", "4G"),
      PhoneEntry("honor x7b", "6000", "108", "4G"),
      PhoneEntry("honor x6b", "5200", "50", "4G"),
      PhoneEntry("honor x6a", "5200", "50", "4G"),
      PhoneEntry("honor x5 plus", "5200", "50", "4G"),
      PhoneEntry("oppo find x7 ultra", "5000", "50", "5G"),
      PhoneEntry("oppo find x6 pro", "5000", "50", "5G"),
      PhoneEntry("oppo reno11 pro", "4600", "50", "5G"),
      PhoneEntry("oppo reno11", "5000", "50", "5G"),
      PhoneEntry("oppo reno10 pro+", "4700", "50", "5G"),
      PhoneEntry("oppo reno10 pro", "4600", "50", "5G"),
      PhoneEntry("oppo reno10", "5000", "64", "5G"),
      PhoneEntry("oppo a79", "5000", "50", "5G"),
      PhoneEntry("oppo a78", "5000", "50", "5G"),
      PhoneEntry("oppo a58", "5000", "50", "4G"),
      PhoneEntry("oppo a38", "5000", "50", "4G"),
      PhoneEntry("oppo a18", "5000", "8", "4G"),
      PhoneEntry("vivo x100 pro", "5400", "50", "5G"),
      PhoneEntry("vivo x100", "5000", "50", "5G"),
      PhoneEntry("vivo v30 pro", "5000", "50", "5G"),
      PhoneEntry("vivo v30", "5000", "50", "5G"),
      PhoneEntry("vivo v29", "4600", "50", "5G"),
      PhoneEntry("vivo v27", "4600", "50", "5G"),
      PhoneEntry("vivo y100", "5000", "50", "5G"),
      PhoneEntry("vivo y36", "5000", "50", "4G"),
      PhoneEntry("vivo y27", "5000", "50", "4G"),
      PhoneEntry("vivo y17s", "5000", "50", "4G"),
      PhoneEntry("realme gt5 pro", "5400", "50", "5G"),
      PhoneEntry("realme 12 pro+", "5000", "50", "5G"),
      PhoneEntry("realme 12 pro", "5000", "50", "5G"),
      PhoneEntry("realme 11 pro+", "5000", "200", "5G"),
      PhoneEntry("realme 11 pro", "5000", "100", "5G"),
      PhoneEntry("realme 11", "5000", "108", "4G"),
      PhoneEntry("realme c67", "5000", "108", "4G"),
      PhoneEntry("realme c55", "5000", "64", "4G"),
      PhoneEntry("realme c53", "5000", "50", "4G"),
      PhoneEntry("infinix note 40 pro", "5000", "108", "5G"),
      PhoneEntry("infinix note 40", "5000", "108", "4G"),
      PhoneEntry("infinix note 30 pro", "5000", "108", "5G"),
      PhoneEntry("infinix note 30", "5000", "64", "4G"),
      PhoneEntry("infinix hot 40 pro", "5000", "108", "4G"),
      PhoneEntry("infinix hot 40", "5000", "50", "4G"),
      PhoneEntry("infinix hot 30 play", "6000", "16", "4G"),
      PhoneEntry("infinix hot 30", "5000", "50", "4G"),
      PhoneEntry("infinix smart 8", "5000", "13", "4G"),
      PhoneEntry("infinix zero 30", "5000", "108", "5G"),
      PhoneEntry("tecno camon 30 pro", "5000", "50", "5G"),
      PhoneEntry("tecno camon 30", "5000", "50", "4G"),
      PhoneEntry("tecno camon 20 pro", "5000", "64", "4G"),
      PhoneEntry("tecno camon 20", "5000", "64", "4G"),
      PhoneEntry("tecno spark 20 pro+", "5000", "108", "4G"),
      PhoneEntry("tecno spark 20 pro", "5000", "50", "4G"),
      PhoneEntry("tecno spark 20", "5000", "50", "4G"),
      PhoneEntry("tecno spark go 2024", "5000", "13", "4G"),
      PhoneEntry("tecno pop 8", "5000", "8", "4G"),
      PhoneEntry("itel s24", "5000", "50", "4G"),
      PhoneEntry("itel s23+", "5000", "50", "4G"),
      PhoneEntry("itel a70", "5000", "13", "4G"),
      PhoneEntry("itel a60s", "4000", "8", "4G"),
      PhoneEntry("itel p55", "5000", "50", "4G") >>

\* One item of KNOWN_SPECS: model -> {battery_mah, camera_rear_mp, network,
\* processor_type}
KnownEntry(model, battery, camera, network, processor) ==
    [key |-> model,
     specs |-> [battery_mah |-> battery, camera_rear_mp |-> camera,
                network |-> network, processor_type |-> processor]]

KNOWN_SPECS ==
    <<
      KnownEntry("iphone 17", "4100", "48", "5G", "A19"),
      KnownEntry("iphone 16", "3561", "48", "5G", "A18"),
      KnownEntry("iphone 16 plus", "4674", "48", "5G", "A18"),
      KnownEntry("iphone 16 pro", "3582", "48", "5G", "A18 Pro"),
      KnownEntry("iphone 16 pro max", "4685", "48", "5G", "A18 Pro"),
      KnownEntry("iphone 15", "3349", "48", "5G", "A16 Bionic"),
      KnownEntry("iphone 15 plus", "4383", "48", "5G", "A16 Bionic"),
      KnownEntry("iphone 15 pro", "3274", "48", "5G", "A17 Pro"),
      KnownEntry("iphone 15 pro max", "4422", "48", "5G", "A17 Pro"),
      KnownEntry("iphone 14", "3279", "12", "5G", "A15 Bionic"),
      KnownEntry("iphone 14 plus", "4325", "12", "5G", "A15 Bionic"),
      KnownEntry("iphone 14 pro", "3200", "48", "5G", "A16 Bionic"),
      KnownEntry("iphone 14 pro max", "4323", "48", "5G", "A16 Bionic"),
      KnownEntry("iphone 13", "3227", "12", "5G", "A15 Bionic"),
      KnownEntry("iphone 13 mini", "2406", "12", "5G", "A15 Bionic"),
      KnownEntry("iphone 13 pro", "3095", "12", "5G", "A15 Bionic"),
      KnownEntry("iphone 13 pro max", "4352", "12", "5G", "A15 Bionic"),
      KnownEntry("iphone 12", "2815", "12", "5G", "A14 Bionic"),
      KnownEntry("iphone 12 mini", "2227", "12", "5G", "A14 Bionic"),
      KnownEntry("iphone 12 pro", "2815", "12", "5G", "A14 Bionic"),
      KnownEntry("iphone 12 pro max", "3687", "12", "5G", "A14 Bionic"),
      KnownEntry("iphone 11", "3110", "12", "4G", "A13 Bionic"),
      KnownEntry("iphone 11 pro", "3046", "12", "4G", "A13 Bionic"),
      KnownEntry("iphone 11 pro max", "3969", "12", "4G", "A13 Bionic"),
      KnownEntry("samsung galaxy s25", "4000", "50", "5G", "Snapdragon 8 Elite"),
      KnownEntry("samsung galaxy s25 plus", "4900", "50", "5G", "Snapdragon 8 Elite"),
      KnownEntry("samsung galaxy s25 ultra", "5000", "200", "5G", "Snapdragon 8 Elite"),
      KnownEntry("samsung galaxy s24", "4000", "50", "5G", "Exynos 2400"),
      KnownEntry("samsung galaxy s24 plus", "4900", "50", "5G", "Exynos 2400"),
      KnownEntry("samsung galaxy s24 ultra", "5000", "200", "5G", "Snapdragon 8 Gen 3"),
      KnownEntry("samsung galaxy a56", "5000", "50", "5G", "Exynos 1580"),
      KnownEntry("samsung galaxy a55", "5000", "50", "5G", "Exynos 1480"),
      KnownEntry("samsung galaxy a36", "5000", "50", "5G", "Snapdragon 6 Gen 3"),
      KnownEntry("samsung galaxy a35", "5000", "50", "5G", "Exynos 1380"),
      KnownEntry("samsung galaxy a26", "5000", "50", "5G", "Dimensity 6300"),
      KnownEntry("samsung galaxy a25", "5000", "50", "5G", "Exynos 1280"),
      KnownEntry("samsung galaxy a16", "5000", "50", "5G", "Exynos 1330"),
      KnownEntry("samsung galaxy a15", "5000", "50", "4G", "Helio G99"),
      KnownEntry("samsung galaxy a06", "5000", "50", "4G", "Helio G85"),
      KnownEntry("samsung galaxy a05", "5000", "50", "4G", "Helio G85"),
      KnownEntry("redmi note 14", "5500", "108", "5G", "Dimensity 7025"),
      KnownEntry("redmi note 14 pro", "5500", "200", "5G", "Dimensity 7300"),
      KnownEntry("redmi note 14 pro plus", "6200", "200", "5G", "Snapdragon 7s Gen 3"),
      KnownEntry("redmi note 13", "5000", "108", "4G", "Snapdragon 685"),
      KnownEntry("redmi note 13 pro", "5100", "200", "4G", "Helio G99 Ultra"),
      KnownEntry("redmi note 13 pro plus", "5000", "200", "5G", "Dimensity 7200 Ultra"),
      KnownEntry("honor x8b", "4500", "108", "4G", "Snapdragon 680"),
      KnownEntry("honor x7b", "6000", "108", "4G", "Snapdragon 680"),
      KnownEntry("honor x6b", "5200", "50", "4G", "Helio G85"),
      KnownEntry("honor 200", "5200", "50", "5G", "Snapdragon 7 Gen 3"),
      KnownEntry("honor 200 lite", "4500", "108", "5G", "Dimensity 6080"),
      KnownEntry("honor magic6 lite", "5300", "108", "5G", "Snapdragon 6 Gen 1"),
      KnownEntry("infinix hot 50", "5000", "48", "4G", "Helio G100"),
      KnownEntry("infinix note 40", "5000", "108", "4G", "Helio G99"),
      KnownEntry("infinix note 40 pro", "4600", "108", "5G", "Dimensity 7020"),
      KnownEntry("oppo a60", "5000", "50", "4G", "Snapdragon 680"),
      KnownEntry("oppo reno12", "5000", "50", "5G", "Dimensity 7300") >>

(***************************************************************************)
(* Dictionaries.  A dict is the sequence of its items in insertion order;   *)
(* assigning to a key it already holds keeps the key's place.               *)
(***************************************************************************)

Keys(db) == {db[i].key : i \in 1..Len(db)}

HasKey(db, k) == \E i \in 1..Len(db) : db[i].key = k

IndexOf(db, k) == CHOOSE i \in 1..Len(db) : db[i].key = k

\* db[k]
Lookup(db, k) == db[IndexOf(db, k)].specs

\* db[k] = v
Put(db, k, v) ==
    IF HasKey(db, k) THEN [db EXCEPT ![IndexOf(db, k)] = [key |-> k, specs |-> v]]
    ELSE Append(db, [key |-> k, specs |-> v])

\* specs.get(col)
GetField(specs, col) == IF col \in DOMAIN specs THEN specs[col] ELSE None

\* What a matcher returns: the item it selected (its key names the record),
\* or None.
NoMatch == [found |-> FALSE, key |-> "", specs |-> [source |-> ""]]

Found(item) == [found |-> TRUE, key |-> item.key, specs |-> item.specs]

(***************************************************************************)
(* Scores are fractions <<numerator, denominator>>, denominator > 0.        *)
(***************************************************************************)

Greater(x, y) == x[1] * y[2] > y[1] * x[2]

SameScore(x, y) == x[1] * y[2] = y[1] * x[2]

MaxScore(x, y) == IF Greater(y, x) THEN y ELSE x

Max(m, n) == IF n > m THEN n ELSE m

Min(m, n) == IF n < m THEN n ELSE m

\* best_score = 0
ZeroScore == <<0, 1>>

\* The scan with a score at the threshold accepted (score >= threshold).
AcceptedAtThreshold(score, threshold, best_score) ==
    ~Greater(threshold, score) /\ Greater(score, best_score)

\* "if score > 0.75 and score > best_score" (0.7 in find_best_match)
Accepted(score, threshold, best_score) ==
    Greater(score, threshold) /\ Greater(score, best_score)

\* The scan "for db_key, specs in spec_db.items(): ... if score > threshold
\* and score > best_score: best_score = score; best_match = specs".
\* Best[i] is (best_score, place of best_match) after the first i items;
\* the result is the place of best_match in db, 0 for None.
FuzzyScan(db, Score(_), threshold) ==
    LET Best[i \in 0..Len(db)] ==
            IF i = 0 THEN [score |-> ZeroScore, at |-> 0]
            ELSE IF Accepted(Score(db[i].key), threshold, Best[i - 1].score)
                 THEN [score |-> Score(db[i].key), at |-> i]
                 ELSE Best[i - 1]
    IN  Best[Len(db)].at

\* The scores the scan computes, one per item, in order.
ScanScores(db, Score(_)) == [i \in 1..Len(db) |-> Score(db[i].key)]

(***************************************************************************)
(* difflib.SequenceMatcher(None, a, b).ratio()                              *)
(***************************************************************************)

\* Length of the longest common run of a[i..ahi] and b[j..bhi] from i and j.
CommonRun(a, i, ahi, b, j, bhi) ==
    LET n == Min(ahi - i + 1, bhi - j + 1)
    IN  CHOOSE k \in 0..n :
            /\ SubSeq(a, i, i + k - 1) = SubSeq(b, j, j + k - 1)
            /\ (k = n \/ Ch(a, i + k) # Ch(b, j + k))

\* find_longest_match(alo, ahi, blo, bhi) on inclusive ranges: the longest
\* matching block, the one starting earliest in a and then earliest in b.
find_longest_match(a, alo, ahi, b, blo, bhi) ==
    LET Run(i, j) == CommonRun(a, i, ahi, b, j, bhi)
        size == IF alo > ahi \/ blo > bhi THEN 0
                ELSE CHOOSE k \in 0..Min(ahi - alo + 1, bhi - blo + 1) :
                         /\ \E i \in alo..ahi, j \in blo..bhi : Run(i, j) = k
                         /\ \A i \in alo..ahi, j \in blo..bhi : Run(i, j) <= k
    IN  IF size = 0 THEN <<alo, blo, 0>>
        ELSE LET i == CHOOSE x \in alo..ahi :
                          /\ \E j \in blo..bhi : Run(x, j) = size
                          /\ \A y \in alo..(x - 1), j \in blo..bhi : Run(y, j) < size
                 j == CHOOSE x \in blo..bhi :
                          /\ Run(i, x) = size
                          /\ \A y \in blo..(x - 1) : Run(i, y) < size
             IN  <<i, j, size>>

\* The number of matched characters: the longest block, then the same to
\* its left and to its right (get_matching_blocks).
RECURSIVE MatchedChars(_, _, _, _, _, _)
MatchedChars(a, alo, ahi, b, blo, bhi) ==
    LET m == find_longest_match(a, alo, ahi, b, blo, bhi)
    IN  IF m[3] = 0 THEN 0
        ELSE m[3] + MatchedChars(a, alo, m[1] - 1, b, blo, m[2] - 1)
                  + MatchedChars(a, m[1] + m[3], ahi, b, m[2] + m[3], bhi)

\* ratio() = 2.0 * matches / (len(a) + len(b)), 1.0 for two empty strings.
ratio(a, b) ==
    IF Len(a) + Len(b) = 0 THEN <<1, 1>>
    ELSE <<2 * MatchedChars(a, 1, Len(a), b, 1, Len(b)), Len(a) + Len(b)>>

(***************************************************************************)
(* The product names of the model.  The keys of the names are tabulated     *)
(* once, so that a name is normalised once and not in every state.          *)
(***************************************************************************)

\* The 'model' column of the reference tables.
ReferenceNames ==
    <<"Xiaomi Redmi Note 14 Pro 5G", "Xiaomi Redmi Note 14", "Itel A71",
      "Itel A72", "Itel A55", "Oppo A60 Noir", "Noir 128GB", "A55 Noir">>

\* The 'name' column of the listings to fill.
ListingNames ==
    <<"Redmi Note 14 Pro", "Redmi Note 14", "Redmi Note 13", "Redmi Note 13 Pro",
      "Itel A70", "iPhone 16 Pro Max 256GB", "Oppo Reno 12", "Noir 128GB", NaN>>

NameUniverse ==
    {ReferenceNames[i] : i \in 1..Len(ReferenceNames)}
        \cup {ListingNames[i] : i \in 1..Len(ListingNames)}

\* fill_bestphone_enhanced.extract_model_key
ModelKey == [n \in NameUniverse |-> extract_model_key(n)]

\* fill_bestphone_specs.normalize_model_name
NormalizedName == [n \in NameUniverse |-> normalize_model_name(n)]

\* fill_specs_from_existing.extract_base_model
BaseModel == [n \in NameUniverse |-> extract_base_model(n)]

\* fill_known_specs.extract_model_key
KnownKey == [n \in NameUniverse |-> known_extract_model_key(n)]

\* fill_missing_smart.clean_name_for_matching
CleanName == [n \in NameUniverse |-> clean_name_for_matching(n)]

(***************************************************************************)
(* fill_bestphone_specs.py and fill_specs_from_existing.py: find_best_match *)
(***************************************************************************)

\* "Require at least 70% match": score > 0.7
JaccardThreshold == <<7, 10>>

\* intersection / union of the two word sets (no score when union is 0).
Jaccard(base_model, db_model) ==
    LET base_words == WordSet(base_model)
        db_words == WordSet(db_model)
        intersection == Cardinality(base_words \cap db_words)
        union == Cardinality(base_words \cup db_words)
    IN  IF union > 0 THEN <<intersection, union>> ELSE ZeroScore

\* "return best_match" for the place of best_match in db, 0 for None.
ItemAt(db, at) == IF at = 0 THEN NoMatch ELSE Found(db[at])

\* The body of find_best_match after the key base_model is computed.
BestMatch(base_model, spec_db) ==
    LET Score(db_model) == Jaccard(base_model, db_model)
    IN  IF base_model = "" THEN NoMatch
        ELSE IF HasKey(spec_db, base_model)
        THEN Found(spec_db[IndexOf(spec_db, base_model)])
        ELSE ItemAt(spec_db, FuzzyScan(spec_db, Score, JaccardThreshold))

\* The scores find_best_match computes: none unless the scan is reached.
BestMatchScores(base_model, spec_db) ==
    LET Score(db_model) == Jaccard(base_model, db_model)
    IN  IF base_model = "" \/ HasKey(spec_db, base_model) THEN <<>>
        ELSE ScanScores(spec_db, Score)

\* fill_bestphone_specs.find_best_match
find_best_match(model_name, spec_db) == BestMatch(NormalizedName[model_name], spec_db)

\* fill_specs_from_existing.find_best_match
existing_find_best_match(model_name, spec_db) == BestMatch(BaseModel[model_name], spec_db)

(***************************************************************************)
(* fill_bestphone_enhanced.py: find_matching_specs                          *)
(***************************************************************************)

\* score > 0.75
EnhancedThreshold == <<3, 4>>

\* len(key_words & db_words) / max(len(key_words), len(db_words))
WordOverlap(model_key, db_key) ==
    LET key_words == WordSet(model_key)
        db_words == WordSet(db_key)
    IN  <<Cardinality(key_words \cap db_words),
          Max(Cardinality(key_words), Cardinality(db_words))>>

\* The score of one indexed key: the sequence ratio, raised to the word
\* overlap when both word sets are non-empty.
EnhancedScore(model_key, db_key) ==
    IF WordSet(model_key) # {} /\ WordSet(db_key) # {}
    THEN MaxScore(ratio(model_key, db_key), WordOverlap(model_key, db_key))
    ELSE ratio(model_key, db_key)

\* The body of find_matching_specs after the key model_key is computed.
MatchingSpecs(model_key, spec_db) ==
    LET Score(db_key) == EnhancedScore(model_key, db_key)
    IN  IF model_key = "" THEN NoMatch
        ELSE IF HasKey(spec_db, model_key)
        THEN Found(spec_db[IndexOf(spec_db, model_key)])
        ELSE ItemAt(spec_db, FuzzyScan(spec_db, Score, EnhancedThreshold))

\* The scores find_matching_specs computes: none unless the scan is reached.
MatchingScores(model_key, spec_db) ==
    LET Score(db_key) == EnhancedScore(model_key, db_key)
    IN  IF model_key = "" \/ HasKey(spec_db, model_key) THEN <<>>
        ELSE ScanScores(spec_db, Score)

\* fill_bestphone_enhanced.find_matching_specs
find_matching_specs(model_name, spec_db) == MatchingSpecs(ModelKey[model_name], spec_db)

(***************************************************************************)
(* fill_known_specs.py: find_specs                                          *)
(***************************************************************************)

VariantWords == <<"pro", "plus", "max", "mini", "lite", "ultra", "fe">>

\* r'\s*(pro|plus|max|mini|lite|ultra|fe)\s*' at position i: spaces, one of
\* the words (none is a prefix of another), spaces.
VariantEnd(s, i) ==
    LET a == SpacesEnd(s, i)
        hits == {k \in 1..Len(VariantWords) : StartsAt(s, a, VariantWords[k])}
    IN  IF hits = {} THEN 0
        ELSE SpacesEnd(s, a + Len(VariantWords[CHOOSE k \in hits : TRUE]))

\* re.sub(variant, ' ', model_key).strip(), spaces collapsed
BaseKey(model_key) == CollapseSpaces(Strip(SubstituteAll(model_key, VariantEnd, " ")))

\* The body of find_specs for the key and the key without its variant.
KnownLookup(known, model_key, base_key) ==
    IF model_key = "" THEN NoMatch
    ELSE IF HasKey(known, model_key)
    THEN Found(known[IndexOf(known, model_key)])
    ELSE IF HasKey(known, base_key)
    THEN Found(known[IndexOf(known, base_key)])
    ELSE NoMatch

SpecsOfKey(model_key) == KnownLookup(KNOWN_SPECS, model_key, BaseKey(model_key))

\* fill_known_specs.find_specs
find_specs(model_name) == SpecsOfKey(KnownKey[model_name])

(***************************************************************************)
(* fill_missing_smart.py: find_matching_specs                               *)
(***************************************************************************)

\* The first item of db whose key satisfies Test, 0 when there is none.
FirstItem(db, Test(_)) ==
    IF \A i \in 1..Len(db) : ~Test(db[i].key) THEN 0
    ELSE CHOOSE i \in 1..Len(db) :
             Test(db[i].key) /\ \A j \in 1..(i - 1) : ~Test(db[j].key)

\* "Try exact matches first": model in clean_name or clean_name in model
SubstringTest(clean_name, model) == Contains(clean_name, model) \/ Contains(model, clean_name)

\* "Try fuzzy matching": at least two common words, and 'iphone' among them
\* or the first word of the model inside the cleaned name.
CommonWordsTest(clean_name, model) ==
    LET common == WordSet(model) \cap WordSet(clean_name)
    IN  /\ Cardinality(common) >= 2
        /\ ("iphone" \in common \/ Contains(clean_name, Split(model)[1]))

\* The two loops of find_matching_specs: the place of the record the first
\* one returns, else the second one's, else None.
FirstOf(db, first, second) ==
    IF first > 0 THEN Found(db[first])
    ELSE IF second > 0 THEN Found(db[second])
    ELSE NoMatch

\* The body of find_matching_specs after clean_name is computed.
SmartMatch(db, clean_name) ==
    LET Exact(model) == SubstringTest(clean_name, model)
        Fuzzy(model) == CommonWordsTest(clean_name, model)
    IN  FirstOf(db, FirstItem(db, Exact), FirstItem(db, Fuzzy))

\* fill_missing_smart.find_matching_specs
smart_find_matching_specs(model_name) == SmartMatch(PHONE_SPECS_DB, CleanName[model_name])

\* find_matching_specs of the names of the tables
SmartSpecs == [n \in NameUniverse |-> smart_find_matching_specs(n)]

(***************************************************************************)
(* Tables.  A CSV file is the sequence of its rows, a row maps its columns  *)
(* to the text of the cells ("" for an empty cell).  pd.read_csv types the  *)
(* columns: a column of whole numbers without gaps is int64, a column of    *)
(* numbers with gaps or decimals float64, anything else text; an empty cell *)
(* is nan.                                                                  *)
(***************************************************************************)

ReadColumn(cells) ==
    LET filled == {i \in 1..Len(cells) : cells[i] # ""}
    IN  IF filled # {} /\ \A i \in filled : IsNumberText(cells[i])
        THEN IF filled = 1..Len(cells) /\ \A i \in filled : IsIntText(cells[i])
             THEN cells
             ELSE [i \in 1..Len(cells) |->
                      IF cells[i] = "" THEN NaN ELSE AsFloat(cells[i])]
        ELSE [i \in 1..Len(cells) |-> IF cells[i] = "" THEN NaN ELSE cells[i]]

\* pd.read_csv(path)
read_csv(file) ==
    IF file = <<>> THEN <<>>
    ELSE LET columns == DOMAIN file[1]
             typed == [c \in columns |->
                          ReadColumn([i \in 1..Len(file) |-> file[i][c]])]
         IN  [i \in 1..Len(file) |-> [c \in columns |-> typed[c][i]]]

\* df.to_csv(path, index=False): a missing value is written as an empty cell.
to_csv(df) ==
    [i \in 1..Len(df) |->
        [c \in DOMAIN df[i] |-> IF isna(df[i][c]) \/ df[i][c] = None THEN "" ELSE df[i][c]]]

\* row.get(col): None for a column the table does not have.
RowGet(row, col) == IF col \in DOMAIN row THEN row[col] ELSE None

\* The specification columns of the index scripts (spec_cols, spec_columns).
\* The model carries one column of each kind the scripts treat alike: two
\* numeric ones, a categorical one and the processor, which only the
\* indices and KNOWN_SPECS supply.
SpecColumns == <<"battery_mah", "camera_rear_mp", "network", "processor_type">>

SpecColumnSet == {SpecColumns[i] : i \in 1..Len(SpecColumns)}

(***************************************************************************)
(* build_spec_database (fill_bestphone_specs.py, fill_specs_from_existing)  *)
(***************************************************************************)

\* name_col: 'model', else 'name'
NameColumn(row) == IF "model" \in DOMAIN row THEN "model" ELSE "name"

\* specs = {col: row.get(col) ..., 'source': source_name}
SourceRecord(row, source_name) ==
    [c \in SpecColumnSet \cup {"source"} |->
        IF c = "source" THEN source_name ELSE RowGet(row, c)]

\* The number of valid specs of a record (the key 'source' does not count).
ValidCount(specs) == Cardinality({c \in SpecColumnSet : Valid(specs[c])})

\* The loop body with a record of equal completeness replacing the stored one.
AddRowOnTie(spec_db, base_model, specs) ==
    IF base_model = "" THEN spec_db
    ELSE IF ValidCount(specs) = 0 THEN spec_db
    ELSE IF ~HasKey(spec_db, base_model)
    THEN Put(spec_db, base_model, specs)
    ELSE IF ValidCount(specs) >= ValidCount(Lookup(spec_db, base_model))
    THEN Put(spec_db, base_model, specs)
    ELSE spec_db

\* The body of the loop of build_spec_database for one row.
AddRow(spec_db, base_model, specs) ==
    IF base_model = "" THEN spec_db
    ELSE IF ValidCount(specs) = 0 THEN spec_db
    ELSE IF ~HasKey(spec_db, base_model)
    THEN Put(spec_db, base_model, specs)
    ELSE IF ValidCount(specs) > ValidCount(Lookup(spec_db, base_model))
    THEN Put(spec_db, base_model, specs)
    ELSE spec_db

\* The loop of build_spec_database over the rows, for the key function of
\* the script.  Db[i] is spec_db after the first i rows.
BuildDatabase(df, source_name, Key) ==
    LET Db[i \in 0..Len(df)] ==
            IF i = 0 THEN <<>>
            ELSE AddRow(Db[i - 1], Key[RowGet(df[i], NameColumn(df[i]))],
                        SourceRecord(df[i], source_name))
    IN  Db[Len(df)]

\* fill_bestphone_specs.build_spec_database
build_spec_database(df, source_name) == BuildDatabase(df, source_name, NormalizedName)

\* fill_specs_from_existing.build_spec_database
existing_build_spec_database(df, source_name) == BuildDatabase(df, source_name, BaseModel)

\* spec_db.update(other)
Update(spec_db, other) ==
    LET Merged[i \in 0..Len(other)] ==
            IF i = 0 THEN spec_db
            ELSE Put(Merged[i - 1], other[i].key, other[i].specs)
    IN  Merged[Len(other)]

\* for key, value in other.items(): if key not in spec_db: spec_db[key] = value
AddMissing(spec_db, other) ==
    LET Merged[i \in 0..Len(other)] ==
            IF i = 0 THEN spec_db
            ELSE IF HasKey(Merged[i - 1], other[i].key) THEN Merged[i - 1]
            ELSE Put(Merged[i - 1], other[i].key, other[i].specs)
    IN  Merged[Len(other)]

(***************************************************************************)
(* build_comprehensive_spec_db (fill_bestphone_enhanced.py)                 *)
(***************************************************************************)

\* "if not model_key or len(model_key) < 5: continue"
MinKeyLength == 5

\* specs[col] = str(val).strip() for the columns with a valid value
CollectSpecs(row) ==
    [c \in {d \in SpecColumnSet : Valid(RowGet(row, d))} |-> Strip(row[c])]

\* All rows of the dataframes, in the order the two loops visit them.
RECURSIVE AllRows(_)
AllRows(dataframes) ==
    IF dataframes = <<>> THEN <<>>
    ELSE Head(dataframes) \o AllRows(Tail(dataframes))

\* The body of the loops with the test "if not specs: continue" left out.
CollectRowUnchecked(spec_db, row_name, model_key, specs) ==
    IF isna(row_name) \/ Strip(row_name) = "" THEN spec_db
    ELSE IF model_key = "" \/ Len(model_key) < MinKeyLength THEN spec_db
    ELSE IF \/ ~HasKey(spec_db, model_key)
            \/ Cardinality(DOMAIN specs)
                   > Cardinality(DOMAIN Lookup(spec_db, model_key))
    THEN Put(spec_db, model_key, specs)
    ELSE spec_db

\* The body of the loops of build_comprehensive_spec_db for one row: its
\* name, the key extract_model_key gives it and the specs collected from it.
CollectRow(spec_db, row_name, model_key, specs) ==
    IF isna(row_name) \/ Strip(row_name) = "" THEN spec_db
    ELSE IF model_key = "" \/ Len(model_key) < MinKeyLength THEN spec_db
    ELSE IF DOMAIN specs = {} THEN spec_db
    ELSE IF \/ ~HasKey(spec_db, model_key)
            \/ Cardinality(DOMAIN specs)
                   > Cardinality(DOMAIN Lookup(spec_db, model_key))
    THEN Put(spec_db, model_key, specs)
    ELSE spec_db

\* The two loops of build_comprehensive_spec_db over the rows.  Db[i] is
\* spec_db after the first i rows.
CollectIndex(rows) ==
    LET Db[i \in 0..Len(rows)] ==
            IF i = 0 THEN <<>>
            ELSE CollectRow(Db[i - 1], RowGet(rows[i], NameColumn(rows[i])),
                            ModelKey[RowGet(rows[i], NameColumn(rows[i]))],
                            CollectSpecs(rows[i]))
    IN  Db[Len(rows)]

\* "if name_col not in df.columns: continue": the dataframes with a name column
Named(dataframes) ==
    SelectSeq(dataframes, LAMBDA d : d = <<>> \/ NameColumn(d[1]) \in DOMAIN d[1])

\* fill_bestphone_enhanced.build_comprehensive_spec_db
build_comprehensive_spec_db(dataframes) == CollectIndex(AllRows(Named(dataframes)))

(***************************************************************************)
(* Statistics of a column: Series.median() and Series.mode()[0].            *)
(***************************************************************************)

\* The characters of the cell texts, in code point order.
CodePoints ==
    " +-./0123456789ABCDEFGHIJKLMNOPQRSTUVWXYZabcdefghijklmnopqrstuvwxyz"

Code(c) == CHOOSE k \in 1..Len(CodePoints) : Ch(CodePoints, k) = c

\* a < b for two str values.
TextLess(a, b) ==
    LET differ == {i \in 1..Min(Len(a), Len(b)) : Ch(a, i) # Ch(b, i)}
    IN  IF differ = {} THEN Len(a) < Len(b)
        ELSE Code(Ch(a, CHOOSE i \in differ : \A j \in differ : i <= j))
                 < Code(Ch(b, CHOOSE i \in differ : \A j \in differ : i <= j))

\* The cells of a column that hold a value (dropna).
Known(cells) == {i \in 1..Len(cells) : ~isna(cells[i])}

\* The k-th smallest of the numbers (scaled) at the places among.
KthSmallest(cells, among, k) ==
    LET Value(i) == ParseFloat(cells[i])
    IN  Value(CHOOSE i \in among :
                  /\ Cardinality({j \in among : Value(j) < Value(i)}) < k
                  /\ Cardinality({j \in among : Value(j) <= Value(i)}) >= k)

\* The median of the numbers at the places among, as the text of a float.
MedianOf(cells, among, n) ==
    IF n = 0 THEN NaN
    ELSE IF n % 2 = 1 THEN FormatFloat(KthSmallest(cells, among, (n + 1) \div 2))
    ELSE FormatFloat((KthSmallest(cells, among, n \div 2)
                          + KthSmallest(cells, among, n \div 2 + 1)) \div 2)

\* Series.median(): nan for a column without a value.
median(cells) == MedianOf(cells, Known(cells), Cardinality(Known(cells)))

\* How often the value of place i occurs in the column.
Count(cells, i) == Cardinality({j \in 1..Len(cells) : cells[j] = cells[i]})

\* The places of the most frequent values of the places among.
MostFrequent(cells, among) ==
    {i \in among : \A j \in among : Count(cells, j) <= Count(cells, i)}

\* The least, as str, of the values at the places among.
Least(cells, among) ==
    cells[CHOOSE i \in among : \A j \in among : ~TextLess(cells[j], cells[i])]

\* Series.mode()[0] if len(Series.mode()) > 0 else None: mode() sorts the
\* most frequent values.
mode(cells) ==
    IF Known(cells) = {} THEN None
    ELSE Least(cells, MostFrequent(cells, Known(cells)))

\* The column col of a dataframe.
Column(df, col) == [i \in 1..Len(df) |-> df[i][col]]

(***************************************************************************)
(* The fill loops.  Each gives the dataframe its loop leaves, and next to   *)
(* it what the tier had to offer for each cell ("" for nothing): the two    *)
(* make the stage noted in the history of the run.                          *)
(***************************************************************************)

\* for col in spec_columns: if col not in df.columns: df[col] = ""
EnsureColumns(df) ==
    [i \in 1..Len(df) |->
        [c \in DOMAIN df[i] \cup SpecColumnSet |->
            IF c \in DOMAIN df[i] THEN df[i][c] ELSE ""]]

\* df[col] = df[col].astype(str).replace('nan', '').replace('None', '')
AsText(df) ==
    [i \in 1..Len(df) |->
        [c \in DOMAIN df[i] |->
            IF c \in SpecColumnSet /\ (df[i][c] = NaN \/ df[i][c] = None)
            THEN "" ELSE df[i][c]]]

\* What a loop leaves behind: the rows and the offers, row by row.
Stage(tier, rows, offered) == [tier |-> tier, rows |-> rows, offered |-> offered]

NoOffer == [c \in SpecColumnSet \cup {"ram_gb"} |-> ""]

Offers(specs) == [c \in DOMAIN NoOffer |-> IF c \in DOMAIN specs THEN specs[c] ELSE ""]

\* The sum of a sequence of numbers.
RECURSIVE TotalFrom(_, _)
TotalFrom(counts, k) == IF k > Len(counts) THEN 0 ELSE counts[k] + TotalFrom(counts, k + 1)

Total(counts) == TotalFrom(counts, 1)

\* fill_bestphone_specs.main: new_val = matched_specs.get(field), offered
\* when "pd.notna(new_val) and str(new_val).strip()"
SpecsOffer(matched) ==
    [c \in {d \in SpecColumnSet : matched.found /\ Valid(GetField(matched.specs, d))} |->
        matched.specs[c]]

\* fill_bestphone_specs.main, "Fill missing fields" of one row:
\* if (pd.isna(current_val) or str(current_val).strip() == '') and <offer>
SpecsRow(row, offer) ==
    [c \in DOMAIN row |->
        IF c \in DOMAIN offer /\ Missing(row[c]) THEN offer[c] ELSE row[c]]

\* fill_bestphone_specs.main: the loop over bestphone_df
FillSpecs(df, index) ==
    Stage(1,
          [i \in 1..Len(df) |-> SpecsRow(df[i], SpecsOffer(find_best_match(df[i].name, index)))],
          [i \in 1..Len(df) |-> Offers(SpecsOffer(find_best_match(df[i].name, index)))])

\* fill_bestphone_enhanced.main: specs of a row, none for a row without name
EnhancedMatch(model_name, index) ==
    IF isna(model_name) \/ Strip(model_name) = "" THEN NoMatch
    ELSE find_matching_specs(model_name, index)

\* new_val = specs.get(col), offered when it is true
TruthyOffer(matched) ==
    [c \in {d \in SpecColumnSet : matched.found /\ Truthy(GetField(matched.specs, d))} |->
        matched.specs[c]]

\* The loop body assigning specs.get(col, '') to every specification column.
EnhancedRowAssigning(row, offer) ==
    [c \in DOMAIN row |->
        IF c \in SpecColumnSet THEN (IF c \in DOMAIN offer THEN offer[c] ELSE "")
        ELSE row[c]]

\* if (pd.isna(current) or str(current).strip() == '') and new_val
EnhancedRow(row, offer) ==
    [c \in DOMAIN row |->
        IF c \in DOMAIN offer /\ Missing(row[c]) THEN offer[c] ELSE row[c]]

\* fill_bestphone_enhanced.main: the loop over bestphone
FillEnhanced(df, index) ==
    Stage(1,
          [i \in 1..Len(df) |-> EnhancedRow(df[i], TruthyOffer(EnhancedMatch(df[i].name, index)))],
          [i \in 1..Len(df) |-> Offers(TruthyOffer(EnhancedMatch(df[i].name, index)))])

\* filled_count of fill_bestphone_enhanced.main: one for every cell the loop
\* has assigned
EnhancedFilled(df, index) ==
    Total([i \in 1..Len(df) |->
              Cardinality({c \in DOMAIN TruthyOffer(EnhancedMatch(df[i].name, index)) :
                              Missing(df[i][c])})])

\* The specs of a row looked up under the key without its variant only.
KnownMatchOfBase(model_name) ==
    IF isna(model_name) \/ Strip(model_name) = "" THEN NoMatch
    ELSE KnownLookup(KNOWN_SPECS, BaseKey(KnownKey[model_name]), BaseKey(KnownKey[model_name]))

\* fill_known_specs.main: specs of a row, none for a row without name
KnownMatch(model_name) ==
    IF isna(model_name) \/ Strip(model_name) = "" THEN NoMatch
    ELSE find_specs(model_name)

\* The loop body with the test of the current value left out.
KnownRowOverwriting(row, offer) ==
    [c \in DOMAIN row |-> IF c \in DOMAIN offer THEN offer[c] ELSE row[c]]

\* if (pd.isna(current) or str(current).strip() == '' or str(current) == 'nan') and new_val
KnownRow(row, offer) ==
    [c \in DOMAIN row |->
        IF c \in DOMAIN offer /\ (Missing(row[c]) \/ row[c] = "nan") THEN offer[c] ELSE row[c]]

\* fill_known_specs.main: the loop over bestphone
FillKnown(df) ==
    Stage(2,
          [i \in 1..Len(df) |-> KnownRow(df[i], TruthyOffer(KnownMatch(df[i].name)))],
          [i \in 1..Len(df) |-> Offers(TruthyOffer(KnownMatch(df[i].name)))])

(***************************************************************************)
(* eda_analysis.py: the unified dataset.                                    *)
(***************************************************************************)

\* df.get(col, '')
ColumnOr(row, col) == IF col \in DOMAIN row THEN row[col] ELSE ""

\* standardize_dataframe, for the columns of the model; the name column of
\* a reference source is 'model'.
standardize_dataframe(df, source_name) ==
    [i \in 1..Len(df) |->
        [name |-> df[i][NameColumn(df[i])],
         brand |-> ColumnOr(df[i], "brand"),
         ram_gb |-> ColumnOr(df[i], "ram_gb"),
         battery_mah |-> ColumnOr(df[i], "battery_mah"),
         camera_rear_mp |-> ColumnOr(df[i], "camera_rear_mp"),
         network |-> ColumnOr(df[i], "network"),
         processor_type |-> ColumnOr(df[i], "processor_type"),
         source |-> source_name]]

\* The dtype of a column of a dataframe.
ColumnType(cells) ==
    IF \A i \in 1..Len(cells) : IsIntText(cells[i]) THEN "int64"
    ELSE IF \A i \in 1..Len(cells) : isna(cells[i]) \/ IsNumberText(cells[i]) THEN "float64"
    ELSE "object"

\* The columns pd.concat turns into float64: numeric in every part, float64
\* in one of them.
Promoted(parts) ==
    {c \in DOMAIN parts[1][1] :
        /\ \A p \in 1..Len(parts) : ColumnType(Column(parts[p], c)) # "object"
        /\ \E p \in 1..Len(parts) : ColumnType(Column(parts[p], c)) = "float64"}

\* The rows with the cells of the columns in promoted stored as floats.
AsFloats(rows, promoted) ==
    [i \in 1..Len(rows) |->
        [c \in DOMAIN rows[i] |->
            IF c \in promoted /\ ~isna(rows[i][c]) THEN AsFloat(rows[i][c]) ELSE rows[i][c]]]

\* pd.concat(unified_dfs, ignore_index=True)
concat(parts) == AsFloats(AllRows(parts), Promoted(parts))

(***************************************************************************)
(* fill_missing_smart.py: the three strategies of main.                     *)
(***************************************************************************)

\* The numeric columns of fill_from_brand_stats, of Strategy 3, and the
\* categorical ones, as far as the model carries them.
BrandNumericColumns == {"battery_mah", "camera_rear_mp"}

GlobalNumericColumns == {"battery_mah", "camera_rear_mp", "ram_gb"}

CategoricalColumns == {"network"}

\* The value kept as the table of the script writes it.
StoredAsWritten(col, val) == val

\* df.at[idx, col] = val: a number stored in a column that holds nan is a float.
Stored(col, val) == IF col \in GlobalNumericColumns THEN AsFloat(val) ELSE val

\* for col, val in specs.items(), for the specs of a match
SmartOffer(matched) ==
    [c \in {d \in SpecColumnSet : matched.found /\ d \in DOMAIN matched.specs} |->
        matched.specs[c]]

\* The loop body with the test of the current value left out.
SmartRowOverwriting(row, offer) ==
    [c \in DOMAIN row |-> IF c \in DOMAIN offer THEN Stored(c, offer[c]) ELSE row[c]]

\* if pd.isna(row[col]) or (col in ['network', 'os'] and str(row[col]).strip() == '')
SmartRow(row, offer) ==
    [c \in DOMAIN row |->
        IF /\ c \in DOMAIN offer
           /\ (isna(row[c]) \/ (c \in CategoricalColumns /\ Strip(row[c]) = ""))
        THEN Stored(c, offer[c]) ELSE row[c]]

\* main, Strategy 1: the loop over df
FillSmart(df) ==
    Stage(2,
          [i \in 1..Len(df) |-> SmartRow(df[i], SmartOffer(SmartSpecs[df[i].name]))],
          [i \in 1..Len(df) |-> Offers(SmartOffer(SmartSpecs[df[i].name]))])

\* The column of the whole table instead of the brand's rows.
BrandColumnOfAll(df, brand, col) == Column(df, col)

\* brand_df[col] for brand_df = df[df['brand'] == brand]: the cells of the
\* other rows are left out.
BrandColumn(df, brand, col) ==
    [i \in 1..Len(df) |-> IF df[i].brand = brand THEN df[i][col] ELSE NaN]

\* brand_stats[brand], for "if brand not in brand_stats: continue" none for
\* a missing brand; a statistic is offered when it is not nan (a median), or
\* true (a mode).
BrandOffer(df, brand) ==
    [c \in {d \in BrandNumericColumns :
               ~isna(brand) /\ ~isna(median(BrandColumn(df, brand, d)))}
           \cup {d \in CategoricalColumns :
               ~isna(brand) /\ Truthy(mode(BrandColumn(df, brand, d)))} |->
        IF c \in BrandNumericColumns THEN median(BrandColumn(df, brand, c))
        ELSE mode(BrandColumn(df, brand, c))]

\* if pd.isna(row[col]) and not pd.isna(stats.get(col)), and for the
\* categorical columns
\* if (pd.isna(row[col]) or str(row[col]).strip() == '') and stats.get(col)
BrandRow(row, offer) ==
    [c \in DOMAIN row |->
        IF /\ c \in DOMAIN offer
           /\ IF c \in BrandNumericColumns THEN isna(row[c]) ELSE Missing(row[c])
        THEN offer[c] ELSE row[c]]

\* fill_from_brand_stats
fill_from_brand_stats(df) ==
    Stage(3,
          [i \in 1..Len(df) |-> BrandRow(df[i], BrandOffer(df, df[i].brand))],
          [i \in 1..Len(df) |-> Offers(BrandOffer(df, df[i].brand))])

\* Strategy 3 with 0 for the median of a column without any value.
GlobalOfferOrZero(df) ==
    [c \in GlobalNumericColumns
           \cup {d \in CategoricalColumns : mode(Column(df, d)) # None} |->
        IF c \in CategoricalColumns THEN mode(Column(df, c))
        ELSE IF isna(median(Column(df, c))) THEN "0.0"
        ELSE median(Column(df, c))]

\* main, Strategy 3: the median of a numeric column when it is not nan, the
\* mode of a categorical column that holds a value.
GlobalOffer(df) ==
    [c \in {d \in GlobalNumericColumns : ~isna(median(Column(df, d)))}
           \cup {d \in CategoricalColumns : mode(Column(df, d)) # None} |->
        IF c \in GlobalNumericColumns THEN median(Column(df, c))
        ELSE mode(Column(df, c))]

\* df.fillna('Unknown') next to the fill of the columns.
GlobalRowOfAll(row, offer) ==
    [c \in DOMAIN row |->
        IF c \in DOMAIN offer /\ (isna(row[c]) \/ row[c] = "") THEN offer[c]
        ELSE IF isna(row[c]) THEN "Unknown"
        ELSE row[c]]

\* df[col].fillna(median), and df[col].fillna(mode[0]) with
\* df[col].replace('', mode[0])
GlobalRow(row, offer) ==
    [c \in DOMAIN row |->
        IF /\ c \in DOMAIN offer
           /\ IF c \in GlobalNumericColumns THEN isna(row[c])
              ELSE isna(row[c]) \/ row[c] = ""
        THEN offer[c] ELSE row[c]]

\* global_filled of Strategy 3: missing_count = df[col].isna().sum() of a
\* numeric column that is filled, and
\* df[col].isna().sum() + (df[col].astype(str).str.strip() == '').sum()
\* of a categorical column that is filled
GlobalFilled(df) ==
    LET Filled(columns) == (1..Len(df)) \X (columns \cap DOMAIN GlobalOffer(df))
    IN  Cardinality({cell \in Filled(GlobalNumericColumns) : isna(df[cell[1]][cell[2]])})
        + Cardinality({cell \in Filled(CategoricalColumns) : isna(df[cell[1]][cell[2]])})
        + Cardinality({cell \in Filled(CategoricalColumns) :
                          Strip(df[cell[1]][cell[2]]) = ""})

\* main, Strategy 3
FillGlobal(df) ==
    Stage(4,
          [i \in 1..Len(df) |-> GlobalRow(df[i], GlobalOffer(df))],
          [i \in 1..Len(df) |-> Offers(GlobalOffer(df))])

(***************************************************************************)
(* State.                                                                   *)
(***************************************************************************)

VARIABLES
    program,          \* the script that runs
    pc,               \* its position
    sources,          \* the reference files <source>_smartphones_filled.csv
    ref_specs,        \* the per-source indices built so far
    spec_db,          \* the (merged) specification index
    names,            \* the 'name' column of the listings given to the matcher
    scores,           \* per listing, the scores the matcher's scan computed
    result,           \* per listing, what the matcher returned
    keys,             \* per name, the normalised name and the key of a script
    run,              \* 1 for the first run of the fill sequence, 2 for the second
    bestphone,        \* bestphone_smartphones.csv
    bestphone_filled, \* bestphone_smartphones_filled.csv
    unified,          \* unified_smartphones.csv
    df,               \* the dataframe of fill_missing_smart.main
    unified_filled,   \* unified_smartphones_filled.csv
    stages,           \* the listing table as each tier left it
    spacenet_filled,  \* spacenet_smartphones_filled.csv of fill_specs_from_existing
    rows_to_fill,     \* the rows fill_from_gsmarena_proxy.main has to look up
    idx,              \* how many of them its loop is through with
    unified_enriched, \* unified_smartphones_enriched.csv
    filled_count,     \* what fill_bestphone_enhanced.main reports as filled
    global_filled,    \* what Strategy 3 of fill_missing_smart.main reports
    total_specs_filled, \* what fill_from_gsmarena_proxy.main reports
    tunisianet,       \* the file fill_missing_specs.main is given
    argv,             \* its second argument, None when there is none
    csv_rows,         \* the rows it has loaded
    key_to_query,     \* the query of each key to look up
    to_fetch,         \* the keys it looks up
    lookup,           \* the specifications it has fetched, by key
    searches,         \* the keys its remote lookups were made for, in order
    tunisianet_filled, \* the file it saves
    data,             \* DataService.data
    request,          \* the request the service is answering
    response          \* its answer

vars ==
    <<program, pc, sources, ref_specs, spec_db, names, scores, result, keys, run,
      bestphone, bestphone_filled, unified, df, unified_filled, stages,
      spacenet_filled, rows_to_fill, idx, unified_enriched,
      filled_count, global_filled, total_specs_filled,
      tunisianet, argv, csv_rows, key_to_query, to_fetch, lookup, searches,
      tunisianet_filled, data, request, response>>

proxyVars == <<rows_to_fill, idx, unified_enriched>>

countVars == <<filled_count, global_filled, total_specs_filled>>

lookupVars ==
    <<tunisianet, argv, csv_rows, key_to_query, to_fetch, lookup, searches, tunisianet_filled>>

apiVars == <<data, request, response>>

\* What the fill scripts of the listings leave alone.
serviceVars == <<lookupVars, apiVars>>

\* What the index scripts, their matchers and the fill sequence leave alone.
otherVars == <<spacenet_filled, proxyVars, countVars, serviceVars>>

indexVars == <<sources, ref_specs, spec_db>>

matchVars == <<names, scores, result, keys>>

fillVars == <<run, bestphone, bestphone_filled, unified, df, unified_filled, stages>>

\* The reference sources, in the order the scripts load them.
SourceNames == <<"Tunisianet", "Mytek", "SpaceNet">>

\* A row of a reference file.
ReferenceRow(model, brand, battery, camera, network, processor, ram) ==
    [model |-> model, brand |-> brand, battery_mah |-> battery,
     camera_rear_mp |-> camera, network |-> network,
     processor_type |-> processor, ram_gb |-> ram]

\* All sequences of n elements of the sequence universe.
RECURSIVE Sequences(_, _)
Sequences(universe, n) ==
    IF n = 0 THEN {<<>>}
    ELSE {Append(t, universe[k]) : t \in Sequences(universe, n - 1), k \in 1..Len(universe)}

RECURSIVE SequencesUpTo(_, _)
SequencesUpTo(universe, n) ==
    IF n = 0 THEN {<<>>}
    ELSE Sequences(universe, n) \cup SequencesUpTo(universe, n - 1)

(***************************************************************************)
(* Building and merging the indices: the head of main() of                  *)
(* fill_bestphone_specs.py, fill_specs_from_existing.py and                 *)
(* fill_bestphone_enhanced.py.                                              *)
(***************************************************************************)

\* Rows of the first reference file of the model.
RefRows == 2

\* The rows the reference files are drawn from: one model three times with
\* different known fields, another model, a name without a model, a model
\* of three characters, and a row without any specification.
IndexRows ==
    <<ReferenceRow("Xiaomi Redmi Note 14", "Xiaomi", "5110", "", "", "", "8"),
      ReferenceRow("Xiaomi Redmi Note 14", "Xiaomi", "5000", "", "5G", "", ""),
      ReferenceRow("Xiaomi Redmi Note 14", "Xiaomi", "", "", "4G", "", "8"),
      ReferenceRow("Itel A71", "Itel", "4000", "", "", "", ""),
      ReferenceRow("Noir 128GB", "", "4500", "", "", "", ""),
      ReferenceRow("A55 Noir", "Samsung", "5000", "", "", "", ""),
      ReferenceRow("Itel A71", "Itel", "", "", "", "", "4")>>

IndexPrograms == {"bestphone", "existing", "enhanced"}

NoProxy == rows_to_fill = <<>> /\ idx = 0 /\ unified_enriched = <<>>

NoCount == filled_count = 0 /\ global_filled = 0 /\ total_specs_filled = 0

NoLookup ==
    /\ tunisianet = <<>> /\ argv = None /\ csv_rows = <<>> /\ key_to_query = <<>>
    /\ to_fetch = <<>> /\ lookup = <<>> /\ searches = <<>> /\ tunisianet_filled = <<>>

NoApi == data = <<>> /\ request = <<>> /\ response = <<>>

NoService == NoLookup /\ NoApi

NoFill ==
    /\ NoProxy
    /\ spacenet_filled = <<>>
    /\ run = 0 /\ bestphone = <<>> /\ bestphone_filled = <<>> /\ unified = <<>>
    /\ df = <<>> /\ unified_filled = <<>> /\ stages = <<>>

NoMatching == names = <<>> /\ scores = <<>> /\ result = <<>> /\ keys = <<>>

InitIndex ==
    /\ NoCount /\ NoService
    /\ program \in IndexPrograms
    /\ pc = "load"
    /\ \E first \in Sequences(IndexRows, RefRows), second \in Sequences(IndexRows, 1),
          third \in Sequences(SubSeq(IndexRows, 3, 4), 1) :
           sources = <<first, second, third>>
    /\ ref_specs = <<>>
    /\ spec_db = <<>>
    /\ NoMatching
    /\ NoFill

\* fill_bestphone_specs.main: one turn of "for ref_path, ref_name in [...]":
\* the source is read, its index built and merged with spec_db.update.
MergeReference ==
    /\ program = "bestphone" /\ pc = "load"
    /\ LET i == Len(ref_specs) + 1
           built == build_spec_database(read_csv(sources[i]), SourceNames[i])
       IN  /\ ref_specs' = Append(ref_specs, built)
           /\ spec_db' = Update(spec_db, built)
           /\ pc' = IF i = Len(sources) THEN "indexed" ELSE "load"
    /\ UNCHANGED <<otherVars, program, sources, matchVars, fillVars>>

\* fill_specs_from_existing.main: "Add Tunisianet specs"
AddTunisianet ==
    /\ program = "existing" /\ pc = "load"
    /\ LET tunisianet_specs == existing_build_spec_database(read_csv(sources[1]), "tunisianet")
       IN  /\ ref_specs' = <<tunisianet_specs>>
           /\ spec_db' = Update(spec_db, tunisianet_specs)
    /\ pc' = "mytek"
    /\ UNCHANGED <<otherVars, program, sources, matchVars, fillVars>>

\* fill_specs_from_existing.main: "Add Mytek specs"
AddMytek ==
    /\ program = "existing" /\ pc = "mytek"
    /\ LET mytek_specs == existing_build_spec_database(read_csv(sources[2]), "mytek")
       IN  /\ ref_specs' = Append(ref_specs, mytek_specs)
           /\ spec_db' = AddMissing(spec_db, mytek_specs)
    /\ pc' = "indexed"
    /\ UNCHANGED <<otherVars, program, sources, matchVars, fillVars>>

\* The dataframes fill_bestphone_enhanced.main loads.
Datasets(files) == [i \in 1..Len(files) |-> read_csv(files[i])]

\* fill_bestphone_enhanced.main: spec_db = build_comprehensive_spec_db(datasets)
BuildComprehensive ==
    /\ program = "enhanced" /\ pc = "load"
    /\ spec_db' = build_comprehensive_spec_db(Datasets(sources))
    /\ pc' = "indexed"
    /\ UNCHANGED <<otherVars, program, sources, ref_specs, matchVars, fillVars>>

NextIndex == MergeReference \/ AddTunisianet \/ AddMytek \/ BuildComprehensive

SpecIndex == InitIndex /\ [][NextIndex]_vars

\* The rows build_comprehensive_spec_db visits, in order.
IndexedRows == AllRows(Datasets(sources))

\* The listings of rows that are stored under key: for build_spec_database
\* those with a valid specification, for build_comprehensive_spec_db those
\* with a name, a key of five characters or more and a collected value.
BuiltFrom(rows, Key, key) ==
    {r \in 1..Len(rows) :
        /\ Key[RowGet(rows[r], NameColumn(rows[r]))] = key
        /\ ValidCount(SourceRecord(rows[r], "")) > 0}

\* Row r is the first of the rows in among with the most valid fields.
FirstMostComplete(rows, among, r) ==
    /\ r \in among
    /\ \A q \in among :
           /\ ValidCount(SourceRecord(rows[q], "")) <= ValidCount(SourceRecord(rows[r], ""))
           /\ q < r => ValidCount(SourceRecord(rows[q], "")) < ValidCount(SourceRecord(rows[r], ""))

\* C9.  Source precedence on merge: a key that several sources' indices
\* hold has, in the merged index, the record of the first of those sources
\* in merge order; a source merged later does not replace it.
SourcePrecedence ==
    \A i \in 1..Len(ref_specs) : \A k \in Keys(ref_specs[i]) :
        (\A h \in 1..(i - 1) : ~HasKey(ref_specs[h], k))
            => /\ HasKey(spec_db, k)
               /\ Lookup(spec_db, k) = Lookup(ref_specs[i], k)

\* C10.  Most-complete record per key: the record an index stores for a key
\* is that of the first listing, in input order, among the listings with
\* that key, that has the most non-empty specification fields.
MostCompleteRecord ==
    /\ \A i \in 1..Len(ref_specs) : \A k \in Keys(ref_specs[i]) :
           \E r \in 1..Len(sources[i]) :
               /\ FirstMostComplete(read_csv(sources[i]),
                                    BuiltFrom(read_csv(sources[i]),
                                              IF program = "bestphone" THEN NormalizedName
                                              ELSE BaseModel, k), r)
               /\ Lookup(ref_specs[i], k)
                      = SourceRecord(read_csv(sources[i])[r],
                                     IF program = "bestphone" THEN SourceNames[i]
                                     ELSE <<"tunisianet", "mytek">>[i])
    /\ program = "enhanced" /\ pc = "indexed" =>
           \A k \in Keys(spec_db) :
               \E r \in 1..Len(IndexedRows) :
                   /\ FirstMostComplete(IndexedRows, BuiltFrom(IndexedRows, ModelKey, k), r)
                   /\ Lookup(spec_db, k) = CollectSpecs(IndexedRows[r])

\* A two-row source whose rows share a key, the second with more valid
\* fields than the first, has been indexed: the second row's record is kept.
MostCompleteRecordWitness ==
    /\ program = "bestphone" /\ pc = "indexed"
    /\ sources[1] = <<IndexRows[1], IndexRows[2]>>
    /\ Lookup(ref_specs[1], "xiaomi redmi note 14").network = "5G"

(***************************************************************************)
(* Matching one listing name: the index scripts build their index and call  *)
(* their matcher, fill_known_specs.py and fill_missing_smart.py look the    *)
(* name up in their curated tables.                                         *)
\* The canonical key the running script gives a listing name.
CanonicalKey(model_name) ==
    CASE program = "bestphone" -> NormalizedName[model_name]
      [] program = "existing" -> BaseModel[model_name]
      [] program = "enhanced" -> ModelKey[model_name]
      [] program = "known" -> KnownKey[model_name]
      [] program = "smart" -> CleanName[model_name]

\* The indices a script has built: the merged index and the index of each
\* source.
BuiltIndices == {spec_db} \cup {ref_specs[i] : i \in 1..Len(ref_specs)}

\* C11: Minimum key length.  Every key of an index a script has built is
\* at least 5 characters long (so it is not empty).
MinimumKeyLength ==
    \A index \in BuiltIndices : \A i \in 1..Len(index) :
        Len(index[i].key) >= MinKeyLength

\* A record holds a value for one specification column at least.
HasSpec(specs) == \E c \in SpecColumnSet : Valid(GetField(specs, c))

\* C12: No all-empty donor.  Every record of an index a script has built
\* holds a value for one specification column at least.
NoAllEmptyDonor ==
    \A index \in BuiltIndices : \A i \in 1..Len(index) : HasSpec(index[i].specs)

\* The index is built from files of which one holds a row with a model but
\* without any specification, and the index has no record for that model.
NoAllEmptyDonorWitness ==
    /\ pc = "indexed"
    /\ \E r \in 1..Len(IndexedRows) :
          /\ ~HasSpec(IndexedRows[r])
          /\ Len(CanonicalKey(IndexedRows[r].model)) >= MinKeyLength
          /\ ~HasKey(spec_db, CanonicalKey(IndexedRows[r].model))

(***************************************************************************)

\* The rows the reference file of the matching runs is drawn from.
MatchRows ==
    <<ReferenceRow("Redmi Note 14 Pro", "Xiaomi", "5110", "", "", "", ""),
      ReferenceRow("Xiaomi Redmi Note 14", "Xiaomi", "5000", "", "", "", ""),
      ReferenceRow("Itel A71", "Itel", "4000", "", "", "", ""),
      ReferenceRow("Itel A72", "Itel", "4100", "", "", "", ""),
      ReferenceRow("Itel A55", "Itel", "4200", "", "", "", "")>>

CuratedPrograms == {"known", "smart"}

InitMatch ==
    /\ NoCount /\ NoService
    /\ program \in IndexPrograms \cup CuratedPrograms
    /\ pc = IF program \in IndexPrograms THEN "load" ELSE "indexed"
    /\ \E first \in SequencesUpTo(MatchRows, RefRows) :
           sources = IF program \in IndexPrograms THEN <<first, <<>>, <<>>>> ELSE <<>>
    /\ ref_specs = <<>>
    /\ spec_db = <<>>
    /\ names = ListingNames
    /\ scores = <<>>
    /\ result = <<>>
    /\ keys = <<>>
    /\ NoFill

\* One turn of the loop over the listings: the matcher's answer and the
\* scores it computed are noted for the row, the loop ends after the last.
NoteMatch(specs, computed) ==
    /\ result' = Append(result, specs)
    /\ scores' = Append(scores, computed)
    /\ pc' = IF Len(result) + 1 = Len(names) THEN "matched" ELSE "indexed"

\* fill_bestphone_specs.main: specs = find_best_match(row[name_col], spec_db)
FindBestMatch ==
    /\ program = "bestphone" /\ pc = "indexed"
    /\ NoteMatch(find_best_match(names[Len(result) + 1], spec_db),
                 BestMatchScores(NormalizedName[names[Len(result) + 1]], spec_db))
    /\ UNCHANGED <<otherVars, program, indexVars, names, keys, fillVars>>

\* fill_specs_from_existing.main: specs = find_best_match(row['model'], spec_db)
ExistingFindBestMatch ==
    /\ program = "existing" /\ pc = "indexed"
    /\ NoteMatch(existing_find_best_match(names[Len(result) + 1], spec_db),
                 BestMatchScores(BaseModel[names[Len(result) + 1]], spec_db))
    /\ UNCHANGED <<otherVars, program, indexVars, names, keys, fillVars>>

\* fill_bestphone_enhanced.main: specs = find_matching_specs(name, spec_db)
FindMatchingSpecs ==
    /\ program = "enhanced" /\ pc = "indexed"
    /\ NoteMatch(find_matching_specs(names[Len(result) + 1], spec_db),
                 MatchingScores(ModelKey[names[Len(result) + 1]], spec_db))
    /\ UNCHANGED <<otherVars, program, indexVars, names, keys, fillVars>>

\* fill_known_specs.main: specs = find_specs(name)
FindSpecs ==
    /\ program = "known" /\ pc = "indexed"
    /\ NoteMatch(find_specs(names[Len(result) + 1]), <<>>)
    /\ UNCHANGED <<otherVars, program, indexVars, names, keys, fillVars>>

\* fill_missing_smart.main: specs = find_matching_specs(row['name'])
SmartFindMatchingSpecs ==
    /\ program = "smart" /\ pc = "indexed"
    /\ NoteMatch(smart_find_matching_specs(names[Len(result) + 1]), <<>>)
    /\ UNCHANGED <<otherVars, program, indexVars, names, keys, fillVars>>

NextMatch ==
    \/ MergeReference \/ AddTunisianet \/ AddMytek \/ BuildComprehensive
    \/ FindBestMatch \/ ExistingFindBestMatch \/ FindMatchingSpecs
    \/ FindSpecs \/ SmartFindMatchingSpecs

SpecMatch == InitMatch /\ [][NextMatch]_vars

\* The index the running script's matcher searches.
SearchedIndex ==
    CASE program \in IndexPrograms -> spec_db
      [] program = "known" -> KNOWN_SPECS
      [] program = "smart" -> PHONE_SPECS_DB

\* The acceptance threshold of the running script's matcher.
Threshold == IF program = "enhanced" THEN EnhancedThreshold ELSE JaccardThreshold

\* C3.  Exact-match priority: a listing whose canonical key is verbatim a
\* key of the index gets that key's record, and no score is computed for it.
ExactMatchPriority ==
    \A i \in 1..Len(result) :
        HasKey(SearchedIndex, CanonicalKey(names[i]))
            => /\ result[i].found
               /\ result[i].key = CanonicalKey(names[i])
               /\ scores[i] = <<>>

DiffersBySuffix(a, b) ==
    \E k \in 1..Len(VariantWords) :
        a = b \o " " \o VariantWords[k] \/ b = a \o " " \o VariantWords[k]

\* C5.  Suffix-sensitive resolution: two listings whose canonical keys
\* differ only by a variant suffix do not resolve to the same record.
SuffixSensitive ==
    \A i, j \in 1..Len(result) :
        (/\ DiffersBySuffix(CanonicalKey(names[i]), CanonicalKey(names[j]))
         /\ result[i].found /\ result[j].found)
            => result[i].key # result[j].key

\* C6.  Empty key is unmatchable: a listing whose name is absent or
\* normalises to the empty string is matched to no record.
EmptyKeyUnmatchable ==
    \A i \in 1..Len(result) :
        (isna(names[i]) \/ CanonicalKey(names[i]) = "") => ~result[i].found

\* A key without its variant-suffix words.
NotVariant(word) == \A k \in 1..Len(VariantWords) : word # VariantWords[k]

WithoutVariants(key) == JoinWords(SelectSeq(Split(key), NotVariant))

\* The entry of a curated table the claim names for a canonical key.
CuratedEntry(table, key) ==
    IF key # "" /\ HasKey(table, key) THEN Found(table[IndexOf(table, key)])
    ELSE IF key # "" /\ HasKey(table, WithoutVariants(key))
    THEN Found(table[IndexOf(table, WithoutVariants(key))])
    ELSE NoMatch

\* C13: Curated-table lookup.  A curated matcher returns the entry under
\* the listing's canonical key, else the entry under the key without its
\* variant-suffix words, else none, and never any other entry.
CuratedTableLookup ==
    program \in CuratedPrograms =>
        \A i \in 1..Len(result) :
            result[i] = CuratedEntry(SearchedIndex, CanonicalKey(names[i]))

\* The score the claim names for two keys: the greater of the Jaccard
\* overlap of their word sets and of their character-sequence ratio.
JaccardOrRatio(key, db_key) == MaxScore(Jaccard(key, db_key), ratio(key, db_key))

\* The word-set component of the score of the running script's matcher.
WordComponent(key, db_key) ==
    IF program = "enhanced" THEN WordOverlap(key, db_key) ELSE Jaccard(key, db_key)

\* C14: Similarity score.  The score a fuzzy matcher computes for a key of
\* the index is the greater of the Jaccard overlap of the two word sets and
\* of the character-sequence ratio of the two keys.
SimilarityScore ==
    program \in {"bestphone", "enhanced"} =>
        \A i \in 1..Len(scores) : \A k \in 1..Len(scores[i]) :
            /\ SameScore(WordComponent(CanonicalKey(names[i]), spec_db[k].key),
                         Jaccard(CanonicalKey(names[i]), spec_db[k].key))
            /\ SameScore(scores[i][k], JaccardOrRatio(CanonicalKey(names[i]), spec_db[k].key))

(***************************************************************************)
(* The fill sequence: fill_bestphone_specs.py, fill_bestphone_enhanced.py   *)
(* and fill_known_specs.py fill the BestPhone listings, eda_analysis.py     *)
(* unifies them with the reference sources, fill_missing_smart.py fills the *)
(* unified table.  A second run takes the outputs of the first as inputs.   *)
(***************************************************************************)

\* Rows of bestphone_smartphones.csv.
NRows == 2

\* A row of bestphone_smartphones.csv, which has no specification column
\* but 'network'.
ListingRow(model_name, brand, ram, network) ==
    [name |-> model_name, brand |-> brand, ram_gb |-> ram, network |-> network]

\* The rows bestphone_smartphones.csv is drawn from: a listing a reference
\* resembles by its words, one by its characters, one of the curated
\* tables, one of neither, one without a model in its name, one without name.
ListingRows ==
    <<ListingRow("Redmi Note 14", "Xiaomi", "8", ""),
      ListingRow("Itel A70", "Itel", "", "5G"),
      ListingRow("iPhone 16 Pro Max 256GB", "Apple", "8", ""),
      ListingRow("Oppo Reno 12", "Oppo", "", ""),
      ListingRow("Noir 128GB", "", "4", ""),
      ListingRow("", "Itel", "", "4G")>>

\* The reference files of the runs: one set with every column known
\* somewhere, one without any camera, network, processor or memory size.
ReferenceFiles ==
    {<< <<ReferenceRow("Xiaomi Redmi Note 14", "Xiaomi", "5110", "", "5G", "", "8")>>,
        <<ReferenceRow("Itel A71", "Itel", "4000", "13", "", "Unisoc T603", "")>>,
        <<ReferenceRow("Oppo A60 Noir", "Oppo", "", "", "4G", "", "4")>> >>,
     << <<ReferenceRow("Xiaomi Redmi Note 14", "Xiaomi", "5000", "", "", "", ""),
          ReferenceRow("Itel A72", "Itel", "4100", "", "", "", "")>>,
        <<ReferenceRow("Itel A71", "Itel", "4000", "", "", "", "")>>,
        <<ReferenceRow("Oppo A60 Noir", "Oppo", "5000", "", "", "", "")>> >>}

\* The files of n listings, in the order of ListingRows: no script looks at
\* the order of the listings but for the order of its output.
ListingFiles(n) ==
    {[i \in 1..n |-> ListingRows[pick[i]]] :
        pick \in {p \in [1..n -> 1..Len(ListingRows)] : \A i \in 1..(n - 1) : p[i] <= p[i + 1]}}

InitFill ==
    /\ NoCount /\ NoService
    /\ program = "bestphone"
    /\ pc = "start"
    /\ run = 1
    /\ sources \in ReferenceFiles
    /\ bestphone \in ListingFiles(NRows)
    /\ ref_specs = <<>> /\ spec_db = <<>>
    /\ NoMatching
    /\ bestphone_filled = <<>> /\ unified = <<>> /\ df = <<>>
    /\ unified_filled = <<>> /\ stages = <<>>
    /\ spacenet_filled = <<>>
    /\ NoProxy

\* The index of fill_bestphone_specs.main after its loop over the sources.
MergedIndex(files) ==
    Update(Update(build_spec_database(read_csv(files[1]), SourceNames[1]),
                  build_spec_database(read_csv(files[2]), SourceNames[2])),
           build_spec_database(read_csv(files[3]), SourceNames[3]))

\* A script has filled bestphone_df and saves it.
SaveBestphone(stage) ==
    /\ bestphone_filled' = to_csv(stage.rows)
    /\ stages' = Append(stages, stage)

\* fill_bestphone_specs.main
FillBestphoneSpecs ==
    /\ program = "bestphone" /\ pc = "start"
    /\ spec_db' = MergedIndex(sources)
    /\ SaveBestphone(FillSpecs(EnsureColumns(read_csv(bestphone)), spec_db'))
    /\ program' = "enhanced"
    /\ UNCHANGED <<otherVars, pc, sources, ref_specs, matchVars, run, bestphone, unified, df,
                   unified_filled>>

\* fill_bestphone_enhanced.main
FillBestphoneEnhanced ==
    /\ program = "enhanced" /\ pc = "start"
    /\ spec_db' = build_comprehensive_spec_db(Datasets(sources))
    /\ SaveBestphone(FillEnhanced(AsText(EnsureColumns(read_csv(bestphone_filled))), spec_db'))
    /\ filled_count' = EnhancedFilled(AsText(EnsureColumns(read_csv(bestphone_filled))), spec_db')
    /\ program' = "known"
    /\ UNCHANGED <<spacenet_filled, proxyVars, global_filled, total_specs_filled, serviceVars,
                   pc, sources, ref_specs, matchVars, run, bestphone, unified, df,
                   unified_filled>>

\* fill_known_specs.main; eda_analysis.py follows in the first run.
FillKnownSpecs ==
    /\ program = "known" /\ pc = "start"
    /\ SaveBestphone(FillKnown(AsText(EnsureColumns(read_csv(bestphone_filled)))))
    /\ program' = IF run = 1 THEN "eda" ELSE "smart"
    /\ UNCHANGED <<otherVars, pc, indexVars, matchVars, run, bestphone, unified, df, unified_filled>>

\* eda_analysis.py, steps 1 and 2: the four filled files are loaded,
\* standardised, concatenated and saved as unified_smartphones.csv.
Unify ==
    /\ program = "eda" /\ pc = "start"
    /\ unified' = to_csv(concat(
           <<standardize_dataframe(read_csv(sources[1]), SourceNames[1]),
             standardize_dataframe(read_csv(sources[2]), SourceNames[2]),
             standardize_dataframe(read_csv(sources[3]), SourceNames[3]),
             standardize_dataframe(read_csv(bestphone_filled), "BestPhone")>>))
    /\ program' = "smart"
    /\ UNCHANGED <<otherVars, pc, indexVars, matchVars, run, bestphone, bestphone_filled, df,
                   unified_filled, stages>>

\* fill_missing_smart.main: the file is loaded, Strategy 1 fills from
\* PHONE_SPECS_DB.
FillFromDatabase ==
    /\ program = "smart" /\ pc = "start"
    /\ stages' = Append(stages, FillSmart(read_csv(unified)))
    /\ df' = stages'[Len(stages')].rows
    /\ pc' = "brand"
    /\ UNCHANGED <<otherVars, program, indexVars, matchVars, run, bestphone, bestphone_filled,
                   unified, unified_filled>>

\* fill_missing_smart.main, Strategy 2: df = fill_from_brand_stats(df)
FillFromBrandStats ==
    /\ program = "smart" /\ pc = "brand"
    /\ stages' = Append(stages, fill_from_brand_stats(df))
    /\ df' = stages'[Len(stages')].rows
    /\ pc' = "global"
    /\ UNCHANGED <<otherVars, program, indexVars, matchVars, run, bestphone, bestphone_filled,
                   unified, unified_filled>>

\* fill_missing_smart.main, Strategy 3 and df.to_csv(output_file)
FillGlobalAndSave ==
    /\ program = "smart" /\ pc = "global"
    /\ stages' = Append(stages, FillGlobal(df))
    /\ df' = stages'[Len(stages')].rows
    /\ unified_filled' = to_csv(df')
    /\ global_filled' = GlobalFilled(df)
    /\ pc' = "done"
    /\ UNCHANGED <<spacenet_filled, proxyVars, filled_count, total_specs_filled, serviceVars,
                   program, indexVars, matchVars, run, bestphone, bestphone_filled, unified>>

\* The fill sequence is started again on what the first run has written:
\* bestphone_smartphones_filled.csv and unified_smartphones_filled.csv.
RunAgain ==
    /\ program = "smart" /\ pc = "done" /\ run = 1
    /\ run' = 2
    /\ bestphone' = bestphone_filled
    /\ unified' = unified_filled
    /\ program' = "bestphone"
    /\ pc' = "start"
    /\ stages' = <<>>
    /\ UNCHANGED <<otherVars, indexVars, matchVars, bestphone_filled, df, unified_filled>>

Next ==
    \/ FillBestphoneSpecs \/ FillBestphoneEnhanced \/ FillKnownSpecs \/ Unify
    \/ FillFromDatabase \/ FillFromBrandStats \/ FillGlobalAndSave \/ RunAgain

Spec == InitFill /\ [][Next]_vars

(***************************************************************************)
(* The listings of a run are the rows of the reference files followed by    *)
(* the BestPhone listings, in the order of unified_smartphones.csv.  The    *)
(* three BestPhone scripts work on the BestPhone listings only.             *)
(***************************************************************************)

References == AllRows(sources)

Listings == 1..(Len(References) + Len(bestphone))

\* The columns the fill scripts write.
FillColumns == DOMAIN NoOffer

\* Stage k has worked on the BestPhone file, not on the unified one.
OnBestphone(k) == Len(stages[k].rows) = Len(bestphone)

\* The cell of a listing in column c after stage k of the first run, before
\* the run for k = 0.
Held(k, i, c) ==
    IF i <= Len(References)
    THEN IF k = 0 \/ OnBestphone(k) THEN ColumnOr(References[i], c)
         ELSE stages[k].rows[i][c]
    ELSE IF k = 0 THEN ColumnOr(bestphone[i - Len(References)], c)
         ELSE IF OnBestphone(k) THEN stages[k].rows[i - Len(References)][c]
         ELSE stages[k].rows[i][c]

\* What stage k has found for the cell of a listing, "" for nothing.
Offered(k, i, c) ==
    IF ~OnBestphone(k) THEN stages[k].offered[i][c]
    ELSE IF i <= Len(References) THEN ""
    ELSE stages[k].offered[i - Len(References)][c]

\* Two cells hold the same value: the same text, or the same number.
SameValue(a, b) ==
    \/ a = b
    \/ IsNumberText(a) /\ IsNumberText(b) /\ ParseFloat(a) = ParseFloat(b)

\* Two cells are both empty or hold the same value.
SameCell(a, b) == IF Valid(a) /\ Valid(b) THEN SameValue(a, b) ELSE ~Valid(a) /\ ~Valid(b)

\* The stages of the tiers before k that have offered a value for a cell.
Suppliers(k, i, c) == {j \in 1..k : Valid(Offered(j, i, c))}

First(S) == CHOOSE j \in S : \A other \in S : j <= other

\* The listings that hold a value in column c after stage k.
Covered(k, c) == {i \in Listings : Valid(Held(k, i, c))}

\* C1: Non-destructive fill.  In the first run, a cell of a fill column
\* that holds a value before the run holds the same value after every
\* stage, and in unified_smartphones_filled.csv when the run is done.
NonDestructiveFill ==
    run = 1 =>
        \A i \in Listings, c \in FillColumns :
            Valid(Held(0, i, c)) =>
                /\ \A k \in 1..Len(stages) : SameValue(Held(k, i, c), Held(0, i, c))
                /\ pc = "done" => SameValue(unified_filled[i][c], Held(0, i, c))

\* The first run is done, and a curated table or a reference source has
\* offered a different value for a cell that held one before the run.
NonDestructiveFillWitness ==
    /\ run = 1 /\ pc = "done"
    /\ \E i \in Listings, c \in FillColumns, k \in 1..Len(stages) :
          /\ Valid(Held(0, i, c))
          /\ stages[k].tier <= 2
          /\ Valid(Offered(k, i, c))
          /\ ~SameValue(Offered(k, i, c), Held(0, i, c))

\* C2: Strict tier priority.  In the first run, a cell that is empty before
\* the run holds after every stage the value of the first stage, in the
\* order of the tiers, that has offered one for it, and is still empty when
\* none has; so it is in unified_smartphones_filled.csv when the run is done.
StrictTierPriority ==
    run = 1 =>
        \A i \in Listings, c \in FillColumns :
            ~Valid(Held(0, i, c)) =>
                /\ \A k \in 1..Len(stages) :
                      IF Suppliers(k, i, c) = {} THEN ~Valid(Held(k, i, c))
                      ELSE SameValue(Held(k, i, c), Offered(First(Suppliers(k, i, c)), i, c))
                /\ pc = "done" => SameCell(unified_filled[i][c], Held(Len(stages), i, c))

\* The first run is done; a cell holds the value of a tier though a later
\* tier has offered another one, and a listing without any offer of tier 1
\* holds a value of the brand or of the global statistics.
StrictTierPriorityWitness ==
    /\ run = 1 /\ pc = "done"
    /\ \E i \in Listings, c \in FillColumns, k \in 1..Len(stages) :
          /\ ~Valid(Held(0, i, c))
          /\ Suppliers(k, i, c) # {}
          /\ stages[First(Suppliers(k, i, c))].tier < stages[k].tier
          /\ Valid(Offered(k, i, c))
          /\ ~SameValue(Offered(k, i, c), Offered(First(Suppliers(k, i, c)), i, c))
    /\ \E i \in Listings, c \in FillColumns :
          /\ ~Valid(Held(0, i, c))
          /\ i > Len(References)
          /\ Suppliers(Len(stages), i, c) # {}
          /\ stages[First(Suppliers(Len(stages), i, c))].tier >= 3
          /\ \A d \in FillColumns, k \in 1..Len(stages) :
                stages[k].tier = 1 => ~Valid(Offered(k, i, d))

\* Stage k has left the table as the file it has read.
Untouched(k, file) ==
    /\ Len(stages[k].rows) = Len(file)
    /\ \A i \in 1..Len(file) : \A c \in DOMAIN file[i] :
          SameCell(stages[k].rows[i][c], file[i][c])

MonotonicCoverage ==
    run = 1 =>
        \A k \in 1..Len(stages), c \in FillColumns :
            Cardinality(Covered(k, c)) >= Cardinality(Covered(k - 1, c))

\* The first run is done and every tier has raised the coverage of a column.
MonotonicCoverageWitness ==
    /\ run = 1 /\ pc = "done"
    /\ \A t \in {stages[k].tier : k \in 1..Len(stages)} :
          \E k \in 1..Len(stages), c \in FillColumns :
              /\ stages[k].tier = t
              /\ Cardinality(Covered(k, c)) > Cardinality(Covered(k - 1, c))

\* The numbers of a sequence in ascending order.
RECURSIVE Ascending(_)
Ascending(values) ==
    IF values = <<>> THEN <<>>
    ELSE LET rest == Ascending(Tail(values))
             smaller == SelectSeq(rest, LAMBDA v : v < Head(values))
             others == SelectSeq(rest, LAMBDA v : v >= Head(values))
         IN  smaller \o <<Head(values)>> \o others

\* The median of a non-empty sequence of numbers: the middle one in
\* ascending order, the mean of the two middle ones of an even count.
MiddleOf(values) ==
    LET sorted == Ascending(values)
        n == Len(sorted)
    IN  IF n % 2 = 1 THEN sorted[(n + 1) \div 2]
        ELSE (sorted[n \div 2] + sorted[n \div 2 + 1]) \div 2

\* The rows of a table of the brand of row i that hold a value in column c.
BrandSamples(table, i, c) ==
    SelectSeq(table, LAMBDA row : row.brand = table[i].brand /\ Valid(row[c]))

\* The numbers the brand's rows hold in column c.
BrandNumbers(table, i, c) ==
    LET rows == BrandSamples(table, i, c)
    IN  [j \in 1..Len(rows) |-> ParseFloat(rows[j][c])]

\* How many of the brand's rows hold the value v in column c.
BrandCount(table, i, c, v) ==
    Len(SelectSeq(BrandSamples(table, i, c), LAMBDA row : row[c] = v))

\* The stages of the brand statistics.
BrandStages == {k \in 2..Len(stages) : stages[k].tier = 3}

\* C15: Brand-level tier value.  A numeric cell the brand stage has filled
\* holds the median of the column over the rows of the same brand that held
\* a value when the stage began; a categorical cell it has filled holds a
\* value no other value of the brand's rows is more frequent than.
BrandTierValue ==
    \A k \in BrandStages : \A i \in 1..Len(stages[k].rows) :
        \A c \in BrandNumericColumns \cup CategoricalColumns :
            stages[k].rows[i][c] # stages[k - 1].rows[i][c] =>
                /\ BrandSamples(stages[k - 1].rows, i, c) # <<>>
                /\ c \in BrandNumericColumns =>
                      ParseFloat(stages[k].rows[i][c])
                          = MiddleOf(BrandNumbers(stages[k - 1].rows, i, c))
                /\ c \in CategoricalColumns =>
                      \A j \in 1..Len(stages[k].rows) :
                          BrandCount(stages[k - 1].rows, i, c, stages[k - 1].rows[j][c])
                              <= BrandCount(stages[k - 1].rows, i, c, stages[k].rows[i][c])

\* The brand stage has filled a numeric cell with the mean of the two
\* middle values of its brand, which differ, and a categorical cell of a
\* brand whose rows hold two different values.
BrandTierValueWitness ==
    \E k \in BrandStages :
        /\ \E i \in 1..Len(stages[k].rows), c \in BrandNumericColumns :
              /\ stages[k].rows[i][c] # stages[k - 1].rows[i][c]
              /\ Len(BrandSamples(stages[k - 1].rows, i, c)) % 2 = 0
              /\ \E a, b \in 1..Len(stages[k].rows) :
                    /\ stages[k - 1].rows[a].brand = stages[k].rows[i].brand
                    /\ stages[k - 1].rows[b].brand = stages[k].rows[i].brand
                    /\ Valid(stages[k - 1].rows[a][c]) /\ Valid(stages[k - 1].rows[b][c])
                    /\ ParseFloat(stages[k - 1].rows[a][c]) # ParseFloat(stages[k - 1].rows[b][c])
        /\ \E i \in 1..Len(stages[k].rows), c \in CategoricalColumns :
              /\ stages[k].rows[i][c] # stages[k - 1].rows[i][c]
              /\ \E a \in 1..Len(stages[k].rows) :
                    /\ stages[k - 1].rows[a].brand = stages[k].rows[i].brand
                    /\ Valid(stages[k - 1].rows[a][c])
                    /\ stages[k - 1].rows[a][c] # stages[k].rows[i][c]

\* The stages of the global statistics.
GlobalStages == {k \in 2..Len(stages) : stages[k].tier = 4}

\* C16: Global tier guard.  A cell the global stage has filled belongs to
\* a listing whose brand has no known value in the column.
GlobalTierGuard ==
    \A k \in GlobalStages : \A i \in 1..Len(stages[k].rows) : \A c \in FillColumns :
        stages[k].rows[i][c] # stages[k - 1].rows[i][c] =>
            \/ isna(stages[k].rows[i].brand)
            \/ BrandSamples(stages[k - 1].rows, i, c) = <<>>

\* The stages of the brand and of the global statistics.
StatisticStages == BrandStages \cup GlobalStages

\* No row of a table holds a value in column c.
NoSample(table, c) == \A j \in 1..Len(table) : ~Valid(table[j][c])

Numbers(table, c) ==
    LET rows == SelectSeq(table, LAMBDA row : Valid(row[c]))
    IN  [j \in 1..Len(rows) |-> ParseFloat(rows[j][c])]

\* C18: Statistics come from known values.  A numeric cell a statistic
\* stage has filled holds the median over the listings, of the brand for the
\* brand stage and of the whole table for the global one, whose value is
\* known in unified_smartphones.csv, the input of the run.
StatisticsFromKnownValues ==
    \A k \in StatisticStages : \A i \in 1..Len(stages[k].rows) :
        \A c \in BrandNumericColumns \cup GlobalNumericColumns :
            stages[k].rows[i][c] # stages[k - 1].rows[i][c] =>
                IF k \in BrandStages
                THEN /\ BrandSamples(read_csv(unified), i, c) # <<>>
                     /\ ParseFloat(stages[k].rows[i][c])
                            = MiddleOf(BrandNumbers(read_csv(unified), i, c))
                ELSE /\ Numbers(read_csv(unified), c) # <<>>
                     /\ ParseFloat(stages[k].rows[i][c])
                            = MiddleOf(Numbers(read_csv(unified), c))

(***************************************************************************)
(* fill_from_gsmarena_proxy.py: the rows of unified_smartphones.csv with a  *)
(* missing specification are looked up on GSMArena, one after the other.    *)
(***************************************************************************)

\* max_to_process = min(100, len(rows_to_fill))
ProcessLimit == 100

\* missing_mask of a row, on the columns the model carries
missing_mask(row) == isna(row.camera_rear_mp) \/ isna(row.battery_mah)

\* df[missing_mask].copy(): the rows of the mask under their labels
MissingRows(table) ==
    SelectSeq([i \in 1..Len(table) |-> [row_idx |-> i, row |-> table[i]]],
              LAMBDA r : missing_mask(r.row))

max_to_process == Min(ProcessLimit, Len(rows_to_fill))

\* "name.lower() if name else ''" raises AttributeError for a float: a nan
\* is true and has no method lower.
LowerRaises(v) == Truthy(v) /\ isna(v)

\* extract_model_for_search(name, brand) raises
ExtractRaises(name, brand) == LowerRaises(name) \/ LowerRaises(brand)

\* What search_gsmarena and get_phone_specs answer: no page or no
\* specification parsed, or the specifications parsed from a page.
GsmArenaSpecs ==
    {[c \in {} |-> ""],
     [battery_mah |-> "5000", camera_rear_mp |-> "50", network |-> "5G"]}

\* if pd.isna(df.at[row_idx, spec_key]) or str(df.at[row_idx, spec_key]).strip() == '':
\*     df.at[row_idx, spec_key] = spec_val
ProxyRow(row, specs) ==
    [c \in DOMAIN row |->
        IF c \in DOMAIN specs /\ Missing(row[c]) THEN Stored(c, specs[c]) ELSE row[c]]

\* specs_added: one for every specification written into the row
specs_added(row, specs) == Cardinality({c \in DOMAIN specs : Missing(row[c])})

\* The unification is about to run on the sources and on the listings as
\* they are; fill_from_gsmarena_proxy is run on the unified_smartphones.csv
\* it writes.
InitProxy ==
    /\ NoCount /\ NoService
    /\ program = "eda"
    /\ pc = "start"
    /\ sources \in ReferenceFiles
    /\ bestphone \in ListingFiles(NRows)
    /\ bestphone_filled = bestphone
    /\ unified = <<>> /\ df = <<>>
    /\ spacenet_filled = <<>>
    /\ NoProxy
    /\ ref_specs = <<>> /\ spec_db = <<>>
    /\ NoMatching
    /\ run = 1 /\ unified_filled = <<>> /\ stages = <<>>

\* main: df = pd.read_csv(...), rows_to_fill = df[missing_mask].copy()
LoadUnified ==
    /\ program = "smart" /\ pc = "start"
    /\ df' = read_csv(unified)
    /\ rows_to_fill' = MissingRows(read_csv(unified))
    /\ program' = "proxy"
    /\ pc' = "loop"
    /\ UNCHANGED <<indexVars, matchVars, run, bestphone, bestphone_filled,
                   unified, unified_filled, stages, spacenet_filled, idx, unified_enriched,
                   countVars, serviceVars>>

\* One turn of "for idx, (row_idx, row) in enumerate(...)" that returns
\* from extract_model_for_search, or leaves by "if not name: continue".
SearchAndFill ==
    /\ program = "proxy" /\ pc = "loop"
    /\ idx < max_to_process
    /\ ~(/\ Truthy(rows_to_fill[idx + 1].row.name)
         /\ ExtractRaises(rows_to_fill[idx + 1].row.name, rows_to_fill[idx + 1].row.brand))
    /\ \E specs \in GsmArenaSpecs :
          IF Truthy(rows_to_fill[idx + 1].row.name)
          THEN /\ df' = [df EXCEPT ![rows_to_fill[idx + 1].row_idx] = ProxyRow(@, specs)]
               /\ total_specs_filled' =
                      total_specs_filled + specs_added(df[rows_to_fill[idx + 1].row_idx], specs)
          ELSE UNCHANGED <<df, total_specs_filled>>
    /\ idx' = idx + 1
    /\ UNCHANGED <<program, pc, indexVars, matchVars, run, bestphone, bestphone_filled,
                   unified, unified_filled, stages, spacenet_filled, rows_to_fill,
                   unified_enriched, filled_count, global_filled, serviceVars>>

\* One turn of the loop in which extract_model_for_search raises: main
\* catches nothing, the script ends with the traceback and writes no file.
RaiseAttributeError ==
    /\ program = "proxy" /\ pc = "loop"
    /\ idx < max_to_process
    /\ Truthy(rows_to_fill[idx + 1].row.name)
    /\ ExtractRaises(rows_to_fill[idx + 1].row.name, rows_to_fill[idx + 1].row.brand)
    /\ pc' = "raised"
    /\ UNCHANGED <<program, indexVars, matchVars, fillVars, spacenet_filled, proxyVars,
                   countVars, serviceVars>>

\* df.to_csv(output_file) after the loop
SaveEnriched ==
    /\ program = "proxy" /\ pc = "loop"
    /\ idx = max_to_process
    /\ unified_enriched' = to_csv(df)
    /\ pc' = "done"
    /\ UNCHANGED <<program, indexVars, matchVars, fillVars, spacenet_filled, rows_to_fill, idx,
                   countVars, serviceVars>>

NextProxy == Unify \/ LoadUnified \/ SearchAndFill \/ RaiseAttributeError \/ SaveEnriched

SpecProxy == InitProxy /\ [][NextProxy]_vars

\* C19: Row-level faults never abort the run.  Whatever rows the table
\* holds, a row without name or without brand among them, the run of
\* fill_from_gsmarena_proxy does not end with an exception: it goes on to
\* the remaining rows and to the output file.
RowFaultsNeverAbort == pc # "raised"

(***************************************************************************)
(* A source table that lacks a column: fill_bestphone_enhanced builds its   *)
(* index from it, fill_specs_from_existing.main fills it.                   *)
(***************************************************************************)

\* pd.isna(row.get(col)) or str(row.get(col, '')).strip() == '': row.get is
\* None for a column the table lacks.
MissingGet(row, col) == col \notin DOMAIN row \/ Missing(row[col])

\* has_missing = any(... for col in spec_columns)
has_missing(row) == \E c \in SpecColumnSet : MissingGet(row, c)

\* What the loop has to write into each row: the valid specs of the match
\* of a row with a missing spec.
SpaceNetOffers(spacenet_df, index) ==
    [i \in 1..Len(spacenet_df) |->
        IF has_missing(spacenet_df[i])
        THEN SpecsOffer(existing_find_best_match(spacenet_df[i].model, index))
        ELSE [c \in {} |-> ""]]

\* The loop of main over spacenet_df: spacenet_df.at[idx, col] = new_val for
\* the missing values; .at adds a column the table lacks, nan in the rows
\* it does not write.
FillSpaceNetRows(spacenet_df, offers) ==
    [i \in 1..Len(spacenet_df) |->
        [c \in DOMAIN spacenet_df[i]
                \cup {d \in SpecColumnSet : \E j \in 1..Len(offers) : d \in DOMAIN offers[j]} |->
            IF c \in DOMAIN offers[i] /\ MissingGet(spacenet_df[i], c)
            THEN Stored(c, offers[i][c])
            ELSE IF c \in DOMAIN spacenet_df[i] THEN spacenet_df[i][c] ELSE NaN]]

\* row['model'] raises KeyError in the loop.
ModelRaises(spacenet_df) ==
    \E i \in 1..Len(spacenet_df) :
        has_missing(spacenet_df[i]) /\ "model" \notin DOMAIN spacenet_df[i]

\* spacenet_df[col] raises KeyError in the summary, after the file is saved.
SummaryRaises(filled) ==
    filled # <<>> /\ \E c \in SpecColumnSet : c \notin DOMAIN filled[1]

\* fill_specs_from_existing.main from "Fill missing specs in SpaceNet data"
\* on: whether it raises, and the file it saves unless the loop raises.
existing_main(spacenet_df, index) ==
    IF ModelRaises(spacenet_df) THEN [raised |-> TRUE, saved |-> <<>>]
    ELSE [raised |-> SummaryRaises(FillSpaceNetRows(spacenet_df,
                                                      SpaceNetOffers(spacenet_df, index))),
          saved |-> to_csv(FillSpaceNetRows(spacenet_df,
                                            SpaceNetOffers(spacenet_df, index)))]

\* The table without the column c.
Drop(file, c) == [i \in 1..Len(file) |-> [d \in DOMAIN file[i] \ {c} |-> file[i][d]]]

\* The columns a source table has when it lacks none.
SourceColumns == SpecColumnSet \cup {"model"}

\* The SpaceNet table lacks one of its columns.
InitAbsent ==
    /\ NoCount /\ NoService
    /\ program \in {"existing", "enhanced"}
    /\ pc = "load"
    /\ \E first \in Sequences(SubSeq(IndexRows, 1, 3), 1),
          third \in Sequences(SubSeq(IndexRows, 1, 4), 2),
          c \in SourceColumns :
           sources = <<first, <<IndexRows[3]>>, Drop(third, c)>>
    /\ ref_specs = <<>>
    /\ spec_db = <<>>
    /\ NoMatching
    /\ NoFill

\* fill_specs_from_existing.main: the loop over spacenet_df, to_csv and the
\* summary.
FillSpaceNet ==
    /\ program = "existing" /\ pc = "indexed"
    /\ spacenet_filled' = existing_main(read_csv(sources[3]), spec_db).saved
    /\ pc' = IF existing_main(read_csv(sources[3]), spec_db).raised THEN "raised" ELSE "done"
    /\ UNCHANGED <<program, indexVars, matchVars, fillVars, proxyVars, countVars, serviceVars>>

NextAbsent == AddTunisianet \/ AddMytek \/ BuildComprehensive \/ FillSpaceNet

SpecAbsent == InitAbsent /\ [][NextAbsent]_vars

\* The table with the columns it lacks added, every value empty.
WithEmptyColumns(file) ==
    [i \in 1..Len(file) |->
        [c \in DOMAIN file[i] \cup SourceColumns |->
            IF c \in DOMAIN file[i] THEN file[i][c] ELSE ""]]

\* C20: Absent column equals always-empty.  The index fill_bestphone_enhanced
\* builds from a SpaceNet table that lacks a column is the index it builds
\* from the table with the column added and empty; fill_specs_from_existing
\* does not raise on the table that lacks the column, and saves what it
\* saves for the table with the column added and empty.
AbsentColumnAsEmpty ==
    /\ program = "enhanced" /\ pc = "indexed" =>
          spec_db = build_comprehensive_spec_db(
                        Datasets(<<sources[1], sources[2], WithEmptyColumns(sources[3])>>))
    /\ program = "existing" /\ pc \in {"done", "raised"} =>
          /\ pc # "raised"
          /\ WithEmptyColumns(spacenet_filled)
                = existing_main(read_csv(WithEmptyColumns(sources[3])), spec_db).saved

\* C21: Inputs are not mutated.  A step of a fill script leaves the file the
\* script has loaded its listings from as it was: bestphone_smartphones.csv
\* for fill_bestphone_specs, bestphone_smartphones_filled.csv for
\* fill_bestphone_enhanced and fill_known_specs, unified_smartphones.csv for
\* fill_missing_smart.
InputsNotMutated ==
    [][/\ program = "bestphone" => bestphone' = bestphone
       /\ program \in {"enhanced", "known"} => bestphone_filled' = bestphone_filled
       /\ program = "smart" /\ pc # "done" => unified' = unified]_vars

(***************************************************************************)
(* The normalisers and the key extractors of the scripts, applied to two    *)
(* product names.                                                           *)
(***************************************************************************)

\* Product names: the families of the grammars, with and without variant
\* suffixes, and a name with every kind of noise token.
KeyNames ==
    <<"Redmi Note 14", "Redmi Note 14 Pro", "Redmi Note 14 Pro Plus", "Redmi Note 40",
      "Infinix Note 40", "Samsung Galaxy Note 20", "Samsung Galaxy S24",
      "Samsung Galaxy S24 Ultra", "iPhone 16 Pro", "iPhone 16 Pro Max",
      "Smartphone Samsung Galaxy A55 5G 8Go 256Go Bleu">>

KeyPrograms == {"bestphone", "existing", "enhanced", "known"}

InitKeys ==
    /\ NoCount /\ NoService
    /\ program \in KeyPrograms
    /\ pc = "start"
    /\ \E a, b \in 1..Len(KeyNames) : names = <<KeyNames[a], KeyNames[b]>>
    /\ scores = <<>> /\ result = <<>> /\ keys = <<>>
    /\ sources = <<>> /\ ref_specs = <<>> /\ spec_db = <<>>
    /\ NoFill

\* What a script makes of the names.
Noted(Normalized(_), Key(_)) ==
    /\ keys' = [i \in 1..Len(names) |->
                   [normalized |-> Normalized(names[i]), key |-> Key(names[i])]]
    /\ pc' = "done"
    /\ UNCHANGED <<program, indexVars, names, scores, result, fillVars, otherVars>>

\* fill_bestphone_specs: the index is keyed by normalize_model_name(name)
NormalizeBestphone ==
    /\ program = "bestphone" /\ pc = "start"
    /\ Noted(normalize_model_name, normalize_model_name)

\* fill_specs_from_existing: extract_base_model(name) returns
\* normalize_model_name(name)
NormalizeExisting ==
    /\ program = "existing" /\ pc = "start"
    /\ Noted(extract_base_model, extract_base_model)

\* fill_bestphone_enhanced: normalize_model(name), extract_model_key(name)
NormalizeEnhanced ==
    /\ program = "enhanced" /\ pc = "start"
    /\ Noted(normalize_model, extract_model_key)

\* fill_known_specs: extract_model_key(name) and the name it cleans first
NormalizeKnown ==
    /\ program = "known" /\ pc = "start"
    /\ Noted(KnownNormalized, known_extract_model_key)

NextKeys == NormalizeBestphone \/ NormalizeExisting \/ NormalizeEnhanced \/ NormalizeKnown

SpecKeys == InitKeys /\ [][NextKeys]_vars

\* The closed set of variant suffix tokens.
VariantSuffixes == {"pro", "plus", "ultra", "max", "mini", "fe"}

\* The base model of a normalised name: its words but the variant suffixes.
BaseWords(normalized) == SelectSeq(Split(normalized), LAMBDA w : w \notin VariantSuffixes)

\* The variant suffix tokens of a normalised name.
VariantsOf(normalized) == WordSet(normalized) \cap VariantSuffixes

\* C22: Variant-distinguishing keys.  Two names whose normalised forms have
\* the same base model and different sets of variant suffix tokens get
\* different keys from the extract_model_key of fill_bestphone_enhanced and
\* of fill_known_specs.
VariantDistinguishingKeys ==
    program \in {"enhanced", "known"} /\ pc = "done" =>
        \A i, j \in 1..Len(keys) :
            (/\ BaseWords(keys[i].normalized) = BaseWords(keys[j].normalized)
             /\ VariantsOf(keys[i].normalized) # VariantsOf(keys[j].normalized))
                => keys[i].key # keys[j].key

\* A name made of a storefront prefix, a model, a network-generation token,
\* memory-size tokens and a colour.
NoisyName == "Smartphone Samsung Galaxy A55 5G 8Go 256Go Bleu"

\* C23: Normalisation strips all noise tokens.  The normalisers of
\* fill_bestphone_specs, fill_specs_from_existing and fill_bestphone_enhanced
\* make "samsung galaxy a55" of the name, and the key of the name is that
\* same string.
NoiseStripped ==
    program \in {"bestphone", "existing", "enhanced"} /\ pc = "done" =>
        \A i \in 1..Len(names) :
            names[i] = NoisyName =>
                /\ keys[i].normalized = "samsung galaxy a55"
                /\ keys[i].key = "samsung galaxy a55"

\* fill_bestphone_specs, fill_bestphone_enhanced and fill_known_specs append
\* one stage each, in this order: the stage of fill_known_specs is the third.
KnownStages == {k \in {3} : k <= Len(stages)}

OtherFamilyNotes == {"Infinix Note 40", "Samsung Galaxy Note 20"}

\* C28: No cross-brand key collision.  The key fill_bestphone_enhanced gives a
\* name that contains "infinix note 40" or "galaxy note 20" is no
\* "redmi note ..." key, and is not the key of a Redmi name.
NoCrossBrandKey ==
    program = "enhanced" /\ pc = "done" =>
        \A i \in 1..Len(names) :
            names[i] \in OtherFamilyNotes =>
                /\ ~StartsAt(keys[i].key, 1, "redmi note")
                /\ \A j \in 1..Len(names) :
                       Contains(Lower(names[j]), "redmi") => keys[j].key # keys[i].key

(***************************************************************************)
(* fill_missing_specs.py: the query and the key of a row                    *)
(***************************************************************************)

\* The characters of [\|\/\-]
Separators == {"|", "/", "-"}

AccentedLetters == {"é", "è", "ê", "ë", "à", "â", "ù", "û", "î", "ï", "ô"}

\* [A-Za-zéèêëàâùûîïô\s]
IsColourCh(c) == LowerCh(c) \in LowerChars \/ c \in AccentedLetters \/ IsSpace(c)

\* [A-Za-z]
IsLetter(c) == LowerCh(c) \in LowerChars

\* Start of the whitespace run that ends before position i.
SpacesStart(s, i) ==
    CHOOSE p \in 1..i :
        /\ \A k \in p..(i - 1) : IsSpace(Ch(s, k))
        /\ (p = 1 \/ ~IsSpace(Ch(s, p - 1)))

\* re.sub of a pattern r'\s*X$' whose part X matches from the positions of
\* Hits to the end of s: the text before the leftmost match.
CutAt(s, Hits) ==
    IF Hits = {} THEN s
    ELSE CHOOSE text \in {SubSeq(s, 1, SpacesStart(s, q) - 1) :
                             q \in {h \in Hits : \A g \in Hits : h <= g}} : TRUE

\* r'^(Smartphone|Téléphone Portable|SMARTPHONE)\s+' removed, re.I
StripSearchPrefix(s) ==
    LET Cut(prefix) ==
            /\ StartsAt(Lower(s), 1, prefix)
            /\ SpacesEnd(s, Len(prefix) + 1) > Len(prefix) + 1
    IN  IF Cut("smartphone") THEN SubSeq(s, SpacesEnd(s, 11), Len(s))
        ELSE IF Cut("téléphone portable") THEN SubSeq(s, SpacesEnd(s, 19), Len(s))
        ELSE s

\* r'\s*[\|\/\-]\s*[A-Za-zéèêëàâùûîïô\s]+\s*$' removed
StripTrailingColour(s) ==
    CutAt(s, {q \in 1..(Len(s) - 1) :
                 /\ Ch(s, q) \in Separators
                 /\ \A k \in (q + 1)..Len(s) : IsColourCh(Ch(s, k))})

\* End of r'\d+\s*Go\s*' at i, or 0 (re.I).
SizeGoEnd(s, i) ==
    LET d == DigitsEnd(s, i)
        g == SpacesEnd(s, d)
    IN  IF d > i /\ StartsAt(Lower(s), g, "go") THEN SpacesEnd(s, g + 2) ELSE 0

\* r'/\s*\d+\s*Go\s*/\s*\d+\s*Go\s*(/\s*[A-Za-z]+)?\s*$' matches at q (re.I).
SlashSizesHit(s, q) ==
    /\ Ch(s, q) = "/"
    /\ LET a == SizeGoEnd(s, SpacesEnd(s, q + 1))
       IN  /\ a # 0
           /\ a <= Len(s) /\ Ch(s, a) = "/"
           /\ LET b == SizeGoEnd(s, SpacesEnd(s, a + 1))
              IN  /\ b # 0
                  /\ \/ b > Len(s)
                     \/ /\ Ch(s, b) = "/"
                        /\ LET l == SpacesEnd(s, b + 1)
                               m == RunEnd(s, l, IsLetter)
                           IN  m > l /\ SpacesEnd(s, m) > Len(s)

\* r'\s*/\s*\d+\s*Go\s*/\s*\d+\s*Go\s*(/\s*[A-Za-z]+)?\s*$' removed
StripSlashSizes(s) == CutAt(s, {q \in 1..Len(s) : SlashSizesHit(s, q)})

\* r'\d+\s*\+\s*\d+Go\s*/\s*\d+\s*Go' matches at d (re.I).
PlusSizesHit(s, d) ==
    LET e == DigitsEnd(s, d)
        p == SpacesEnd(s, e)
    IN  /\ e > d
        /\ p <= Len(s) /\ Ch(s, p) = "+"
        /\ LET f == SpacesEnd(s, p + 1)
               g == DigitsEnd(s, f)
           IN  /\ g > f
               /\ StartsAt(Lower(s), g, "go")
               /\ LET h == SpacesEnd(s, g + 2)
                  IN  /\ h <= Len(s) /\ Ch(s, h) = "/"
                      /\ SizeGoEnd(s, SpacesEnd(s, h + 1)) # 0

\* r'\s*\d+\s*\+\s*\d+Go\s*/\s*\d+\s*Go\s*.*$' removed
StripPlusSizes(s) == CutAt(s, {d \in 1..Len(s) : PlusSizesHit(s, d)})

\* r'\s*A631W\s*.*$' removed, re.I
StripVariantCode(s) == CutAt(s, {q \in 1..Len(s) : StartsAt(Lower(s), q, "a631w")})

\* query.split()[:7]
SearchWords == 7

\* The end of normalize_model_for_search: the brand put in front of a
\* cleaned name that does not start with its first four letters, and the
\* first SearchWords words of the result.
BrandedQuery(s, brand) ==
    LET query == IF brand # "" /\ ~StartsAt(Lower(s), 1, SubSeq(Lower(brand), 1, Min(4, Len(brand))))
                 THEN brand \o " " \o s
                 ELSE s
        words == Split(query)
        text == JoinWords(SubSeq(words, 1, Min(SearchWords, Len(words))))
    IN  IF text # "" THEN text ELSE brand

\* normalize_model_for_search(model, brand): each re.sub works on the
\* result of the one before it.
normalize_model_for_search(model, brand) ==
    IF model = "" THEN brand
    ELSE CHOOSE text \in
             {BrandedQuery(Strip(s5), brand) :
                 s5 \in {StripVariantCode(s4) :
                 s4 \in {StripPlusSizes(s3) :
                 s3 \in {StripSlashSizes(s2) :
                 s2 \in {StripTrailingColour(s1) :
                 s1 \in {StripSearchPrefix(model)}}}}}} : TRUE

\* canonical_key(row)
canonical_key(row) ==
    CHOOSE key \in
        {Lower(IF q # "" THEN q ELSE Strip(row.model)) :
            q \in {normalize_model_for_search(model, brand) :
                      model \in {Strip(row.model)}, brand \in {Strip(row.brand)}}} : TRUE

\* SPEC_COLUMNS, the columns the model carries
SPEC_COLUMNS == {"battery_mah", "network"}

LookupRow(model, brand, price, battery, network) ==
    [model |-> model, brand |-> brand, price_dt |-> price,
     battery_mah |-> battery, network |-> network]

\* The rows a file given to fill_missing_specs is drawn from: two listings
\* of one phone, listings with and without a missing field, one without
\* model and brand.
TunisianetRows ==
    <<LookupRow("Smartphone Samsung Galaxy A55 - Bleu", "Samsung", "1299", "", "5G"),
      LookupRow("Samsung Galaxy A55 | Noir", "Samsung", "1,349.000", "5000", ""),
      LookupRow("Redmi Note 14 4G / 6 Go / 128 Go / Noir", "Xiaomi", "699", "", ""),
      LookupRow("Itel A70 4+4Go / 128 Go Noir", "Itel", "", "5000", "4G"),
      LookupRow("Itel A70", "Itel", " 329 ", "", " "),
      LookupRow("", "", "", "", "")>>

NLookupRows == 3

\* sys.argv[2], None when the script is given the file alone
LimitArguments == {None, "0", "2"}

\* The key of each row of the files, computed once.
RowKey ==
    [r \in {TunisianetRows[k] : k \in 1..Len(TunisianetRows)} |-> canonical_key(r)]

\* missing = [c for c in SPEC_COLUMNS if not (row.get(c) or "").strip()]
missing(row) == {c \in SPEC_COLUMNS : Strip(row[c]) = ""}

\* models_to_lookup after the first loop of main
models_to_lookup(table) ==
    {RowKey[table[i]] :
        i \in {j \in 1..Len(table) : RowKey[table[j]] # "" /\ missing(table[j]) # {}}}

\* key_to_query after the first loop of main: the query of the first row of
\* each key that misses a value
QueryOfKeys(table) ==
    [key \in models_to_lookup(table) |->
        LET first == CHOOSE i \in 1..Len(table) :
                         /\ RowKey[table[i]] = key /\ missing(table[i]) # {}
                         /\ \A j \in 1..(i - 1) :
                                ~(RowKey[table[j]] = key /\ missing(table[j]) # {})
        IN  normalize_model_for_search(table[first].model, table[first].brand)]

\* sorted(keys)
RECURSIVE Sorted(_)
Sorted(keyset) ==
    IF keyset = {} THEN <<>>
    ELSE LET least == CHOOSE k \in keyset : \A m \in keyset \ {k} : TextLess(k, m)
         IN  <<least>> \o Sorted(keyset \ {least})

\* str.isdigit()
isdigit(t) == t # "" /\ \A i \in 1..Len(t) : IsDigit(Ch(t, i))

\* to_fetch = sorted(models_to_lookup); if limit: to_fetch = to_fetch[:limit]
ToFetch(keyset, arg) ==
    IF isdigit(arg) /\ ParseInt(arg) # 0
    THEN SubSeq(Sorted(keyset), 1, Min(ParseInt(arg), Cardinality(keyset)))
    ELSE Sorted(keyset)

\* What fetch_specs_for_query answers: {} for a query of less than three
\* characters, for a failed request and for a page without specifications,
\* the parsed table otherwise.
FetchedSpecs(query) ==
    IF Len(query) < 3 THEN {<<>>}
    ELSE {<<>>, [battery_mah |-> "4500", network |-> "4G"]}

\* if not (row.get(col) or "").strip() and spec.get(col): row[col] = spec[col]
LookupFilled(row, spec) ==
    [c \in DOMAIN row |->
        IF c \in missing(row) /\ c \in DOMAIN spec /\ spec[c] # "" THEN spec[c] ELSE row[c]]

InitLookup ==
    /\ NoCount /\ NoApi
    /\ program = "missing"
    /\ pc = "start"
    /\ tunisianet \in SequencesUpTo(TunisianetRows, NLookupRows)
    /\ argv \in LimitArguments
    /\ csv_rows = <<>> /\ key_to_query = <<>> /\ to_fetch = <<>>
    /\ lookup = <<>> /\ searches = <<>> /\ tunisianet_filled = <<>>
    /\ sources = <<>> /\ ref_specs = <<>> /\ spec_db = <<>>
    /\ NoMatching
    /\ NoFill

\* fill_missing_specs.main up to the list of the keys to fetch; it returns
\* at once for a file without rows.
LoadTunisianet ==
    /\ program = "missing" /\ pc = "start"
    /\ csv_rows' = tunisianet
    /\ key_to_query' = IF tunisianet = <<>> THEN <<>> ELSE QueryOfKeys(tunisianet)
    /\ to_fetch' = IF tunisianet = <<>> THEN <<>>
                   ELSE ToFetch(models_to_lookup(tunisianet), argv)
    /\ pc' = IF tunisianet = <<>> THEN "done" ELSE "fetch"
    /\ UNCHANGED <<program, indexVars, matchVars, fillVars, spacenet_filled, proxyVars,
                   countVars, apiVars, tunisianet, argv, lookup, searches, tunisianet_filled>>

\* One turn of "for i, key in enumerate(to_fetch, 1)"
FetchSpecs ==
    /\ program = "missing" /\ pc = "fetch"
    /\ Len(searches) < Len(to_fetch)
    /\ LET key == to_fetch[Len(searches) + 1]
           query == IF key_to_query[key] # "" THEN key_to_query[key] ELSE key
       IN  /\ \E specs \in FetchedSpecs(query) :
                 lookup' = [k \in DOMAIN lookup \cup {key} |-> IF k = key THEN specs ELSE lookup[k]]
           /\ searches' = Append(searches, key)
    /\ UNCHANGED <<program, pc, indexVars, matchVars, fillVars, spacenet_filled, proxyVars,
                   countVars, apiVars, tunisianet, argv, csv_rows, key_to_query, to_fetch,
                   tunisianet_filled>>

\* "Fill missing values in rows" and save_csv(rows, out_path, fieldnames)
FillLookedUp ==
    /\ program = "missing" /\ pc = "fetch"
    /\ Len(searches) = Len(to_fetch)
    /\ csv_rows' = [i \in 1..Len(csv_rows) |->
                      IF RowKey[csv_rows[i]] \in DOMAIN lookup
                      THEN LookupFilled(csv_rows[i], lookup[RowKey[csv_rows[i]]])
                      ELSE csv_rows[i]]
    /\ tunisianet_filled' = csv_rows'
    /\ pc' = "done"
    /\ UNCHANGED <<program, indexVars, matchVars, fillVars, spacenet_filled, proxyVars,
                   countVars, apiVars, tunisianet, argv, key_to_query, to_fetch, lookup,
                   searches>>

NextLookup == LoadTunisianet \/ FetchSpecs \/ FillLookedUp

SpecLookup == InitLookup /\ [][NextLookup]_vars

\* The keys of the rows of the file that miss a value.
KeysWithMissing ==
    {k \in {RowKey[tunisianet[i]] : i \in 1..Len(tunisianet)} :
        /\ k # ""
        /\ \E i \in 1..Len(tunisianet) :
               RowKey[tunisianet[i]] = k /\ missing(tunisianet[i]) # {}}

Searched == {searches[i] : i \in 1..Len(searches)}

\* C29: Deduplicated, limited lookups.  When fill_missing_specs is done, it
\* has made one remote lookup for each key of a row with a missing field
\* and none twice; given a numeric limit N, N = 0 included, it has made
\* lookups for the first N keys in sorted order at most; a row whose key
\* was not looked up is saved as it was.
DeduplicatedLimitedLookups ==
    program = "missing" /\ pc = "done" /\ tunisianet # <<>> =>
        /\ \A i, j \in 1..Len(searches) : i # j => searches[i] # searches[j]
        /\ Searched \subseteq KeysWithMissing
        /\ ~isdigit(argv) => Searched = KeysWithMissing
        /\ isdigit(argv) =>
               /\ Len(searches) <= ParseInt(argv)
               /\ \A k \in Searched : \A m \in KeysWithMissing \ Searched : TextLess(k, m)
        /\ \A i \in 1..Len(tunisianet) :
               RowKey[tunisianet[i]] \notin Searched =>
                   tunisianet_filled[i] = tunisianet[i]

(***************************************************************************)
(* The counters the fill passes report.                                     *)
(***************************************************************************)

\* A listing of no brand whose network cell holds a blank, and whose name
\* find_matching_specs of fill_missing_smart does not match.
BlankListing == ListingRow("Oppo Reno 12", "", "", " ")

\* The unification is about to run on listings the last of which may have
\* a blank cell and no brand; fill_missing_smart or fill_from_gsmarena_proxy is run on the
\* unified_smartphones.csv it writes.
InitCount ==
    /\ NoCount /\ NoService
    /\ program = "eda"
    /\ pc = "start"
    /\ sources \in ReferenceFiles
    /\ bestphone \in {<<ListingRows[k], last>> :
                         k \in 1..Len(ListingRows), last \in {BlankListing, ListingRows[4]}}
    /\ bestphone_filled = bestphone
    /\ unified = <<>> /\ df = <<>>
    /\ spacenet_filled = <<>>
    /\ NoProxy
    /\ ref_specs = <<>> /\ spec_db = <<>>
    /\ NoMatching
    /\ run = 2 /\ unified_filled = <<>> /\ stages = <<>>

NextCount ==
    \/ Unify
    \/ FillFromDatabase \/ FillFromBrandStats \/ FillGlobalAndSave
    \/ LoadUnified \/ SearchAndFill \/ RaiseAttributeError \/ SaveEnriched

SpecCount == InitCount /\ [][NextCount]_vars

\* The cells of the fill columns that are empty in one table and hold a
\* value in the other.
ChangedCells(before, after) ==
    Cardinality({cell \in (1..Len(after)) \X FillColumns :
                    /\ ~Valid(before[cell[1]][cell[2]])
                    /\ Valid(after[cell[1]][cell[2]])})

InitFrame == InitCount \/ InitLookup

NextFrame == NextCount \/ NextLookup

SpecFrame == InitFrame /\ [][NextFrame]_vars

\* The columns of the unified table that are no specification.
FrameColumns == {"name", "brand", "source"}

\* The two files hold the same listings in the same order, with the same
\* text in the columns given.
SameListings(before, after, columns) ==
    /\ Len(after) = Len(before)
    /\ \A i \in 1..Len(before) : \A c \in columns : after[i][c] = before[i][c]

\* The table each tier of fill_missing_smart started from.
StageInput(k) == IF k = 1 THEN read_csv(unified) ELSE stages[k - 1].rows

UnifiedRow(model_name, brand, price, ram, battery, network) ==
    [name |-> model_name, brand |-> brand, price |-> price, ram_gb |-> ram,
     battery_mah |-> battery, network |-> network,
     url |-> "https://shop.example/" \o model_name]

\* A row of a file with the columns DataService looks for.
ServiceRow(id, model_name, brand, price, ram, battery, is_5g) ==
    [id |-> id, name |-> model_name, brand |-> brand, price |-> price, ram |-> ram,
     battery |-> battery, is_5g |-> is_5g, url |-> "https://shop.example/" \o model_name]

\* The files the service is started on: none, the reconciled table of the
\* pipeline, and a table with the columns of the service.
DataFiles ==
    {<<>>,
     <<UnifiedRow("Samsung Galaxy A55", "Samsung", "1299", "8", "5000", "5G"),
       UnifiedRow("Samsung Galaxy A05", "Samsung", "399", "4", "5000", "4G"),
       UnifiedRow("Itel A70", "Itel", "329", "4", "", "4G"),
       UnifiedRow("Redmi Note 14", "Xiaomi", "799", "8", "5110", "4G")>>,
     <<ServiceRow("1", "Samsung Galaxy A55", "Samsung", "1299", "8", "5000", "True"),
       ServiceRow("2", "Samsung Galaxy A05", "Samsung", "399", "4", "5000", "False"),
       ServiceRow("3", "Itel A70", "Itel", "399", "4", "", "False"),
       ServiceRow("4", "Redmi Note 14", "Xiaomi", "799", "8", "5110", "False")>>}

\* DataService.is_data_loaded, for the data of the model
DataLoaded(table) == table # <<>>

\* 'col' in data.columns
HasColumn(table, col) == col \in DOMAIN table[1]

\* series >= bound: False for a nan
AtLeast(cell, bound) == ~isna(cell) /\ ParseFloat(cell) >= ParseFloat(bound)

AtMost(cell, bound) == ~isna(cell) /\ ParseFloat(cell) <= ParseFloat(bound)

\* filtered_data[filtered_data[col] >= bound] when the bound is given and the
\* table has the column
AtLeastFilter(table, bound, col) ==
    IF bound # None /\ ParseFloat(bound) # 0 /\ HasColumn(table, col)
    THEN SelectSeq(table, LAMBDA row : AtLeast(row[col], bound))
    ELSE table

\* get_recommendations: the filters
Filtered(table, req) ==
    LET priced == IF HasColumn(table, "price")
                  THEN SelectSeq(table, LAMBDA row : /\ AtLeast(row.price, req.budget_min)
                                                      /\ AtMost(row.price, req.budget_max))
                  ELSE table
        ram == AtLeastFilter(priced, req.min_ram, "ram")
        battery == AtLeastFilter(ram, req.min_battery, "battery")
        branded == IF Truthy(req.brand) /\ HasColumn(table, "brand")
                   THEN SelectSeq(battery, LAMBDA row : /\ ~isna(row.brand)
                                                         /\ Lower(row.brand) = Lower(req.brand))
                   ELSE battery
    IN  IF req.requires_5g = "True" /\ HasColumn(table, "is_5g")
        THEN SelectSeq(branded, LAMBDA row : row.is_5g = "True")
        ELSE branded

\* The orders of the places 1..n.
Orders(n) == {f \in [1..n -> 1..n] : \A i, j \in 1..n : i # j => f[i] # f[j]}

\* filtered_data.sort_values('price'): the rows in an ascending order of
\* their price; rows of one price may come in any order.
SortValues(table) ==
    IF table = <<>> \/ ~HasColumn(table, "price") THEN {table}
    ELSE {[k \in 1..Len(table) |-> table[f[k]]] :
             f \in {g \in Orders(Len(table)) :
                        \A k \in 1..(Len(table) - 1) :
                            ParseFloat(table[g[k]].price) <= ParseFloat(table[g[k + 1]].price)}}

\* filtered_data.head(limit)
HeadRows(table, limit) == SubSeq(table, 1, Min(limit, Len(table)))

\* filters_applied of the route
FiltersApplied(req) ==
    {"budget_min", "budget_max"}
        \cup {f \in {"min_ram", "min_battery"} : req[f] # None /\ ParseFloat(req[f]) # 0}
        \cup {f \in {"brand"} : Truthy(req.brand)}
        \cup {f \in {"requires_5g"} : req.requires_5g # None}

\* The requests of the model: RecommendationRequest with its validators
\* passed.
RecommendationRequests ==
    [endpoint : {"recommendations"}, budget_min : {"0", "350"}, budget_max : {"800", "2000"},
     min_ram : {None, "8"}, min_battery : {None, "5000"}, brand : {None, "samsung"},
     requires_5g : {None, "True"}, limit : {1, 10}]

\* str.split(sep)
RECURSIVE SplitBy(_, _)
SplitBy(s, sep) ==
    IF \A i \in 1..Len(s) : Ch(s, i) # sep THEN <<s>>
    ELSE LET j == CHOOSE i \in 1..Len(s) :
                      Ch(s, i) = sep /\ \A k \in 1..(i - 1) : Ch(s, k) # sep
         IN  <<SubSeq(s, 1, j - 1)>> \o SplitBy(SubSeq(s, j + 1, Len(s)), sep)

\* The text int() accepts once stripped: a sign, then digits, single
\* underscores between them.
IsIntLiteral(t) ==
    LET signed == t # "" /\ Ch(t, 1) \in {"+", "-"}
        body == IF signed THEN SubSeq(t, 2, Len(t)) ELSE t
    IN  /\ body # ""
        /\ \A i \in 1..Len(body) : IsDigit(Ch(body, i)) \/ Ch(body, i) = "_"
        /\ IsDigit(Ch(body, 1)) /\ IsDigit(Ch(body, Len(body)))
        /\ \A i \in 1..(Len(body) - 1) : ~(Ch(body, i) = "_" /\ Ch(body, i + 1) = "_")

\* The digits of a text.
RECURSIVE DigitsOf(_)
DigitsOf(t) ==
    IF t = "" THEN ""
    ELSE (IF IsDigit(Ch(t, 1)) THEN Ch(t, 1) ELSE "") \o DigitsOf(SubSeq(t, 2, Len(t)))

\* int(id.strip()) of a text int() accepts
IntOf(t) ==
    IF Ch(Strip(t), 1) = "-" THEN 0 - ParseInt(DigitsOf(t)) ELSE ParseInt(DigitsOf(t))

\* int(id.strip()) raises ValueError
IntRaises(t) == ~IsIntLiteral(Strip(t))

\* data_service.get_smartphone_by_id: the first row of the id as a list of
\* one row, the empty list for None (no 'id' column, or no such row)
get_smartphone_by_id(table, sid) ==
    IF ~HasColumn(table, "id") THEN <<>>
    ELSE LET found == SelectSeq(table, LAMBDA row : ParseInt(row.id) = sid)
         IN  IF found = <<>> THEN <<>> ELSE <<found[1]>>

\* The limit of compare_smartphones
MaxCompared == 10

Answer(status, body) == [status |-> status, body |-> body]

\* What the try block of compare_smartphones does: it returns, or raises.
CompareBody(table, ids) ==
    LET tokens == SplitBy(ids, ",")
        smartphone_ids == [k \in 1..Len(tokens) |-> IntOf(tokens[k])]
        phones == [k \in 1..Len(tokens) |-> get_smartphone_by_id(table, smartphone_ids[k])]
        smartphones == SelectSeq(phones, LAMBDA phone : Len(phone) > 0)
    IN  IF \E k \in 1..Len(tokens) : IntRaises(tokens[k])
        THEN [raised |-> "ValueError", status |-> 0, body |-> <<>>]
        ELSE IF Len(tokens) > MaxCompared
        THEN [raised |-> "HTTPException", status |-> 400, body |-> <<>>]
        ELSE IF smartphones = <<>>
        THEN [raised |-> "HTTPException", status |-> 404, body |-> <<>>]
        ELSE [raised |-> "", status |-> 200,
              body |-> [k \in 1..Len(smartphones) |-> smartphones[k][1]]]

\* compare_smartphones: "except ValueError" answers 400; "except Exception"
\* catches what else the block raises, the HTTPException of the block
\* included (HTTPException is a subclass of Exception), and answers 500.
compare_smartphones(table, ids) ==
    IF ~DataLoaded(table) THEN Answer(503, <<>>)
    ELSE LET done == CompareBody(table, ids)
         IN  IF done.raised = "" THEN Answer(200, done.body)
             ELSE IF done.raised = "ValueError" THEN Answer(400, <<>>)
             ELSE Answer(500, <<>>)

\* The ids given to /compare
CompareQueries ==
    {"1", "1,2", " 2 , 7", "7", "7,8", "1,x", "", "1,,2", "1.5", "+3,-1",
     "1,2,3,4,5,6,7,8,9,10,1", "7,7,7,7,7,7,7,7,7,7,7", "1,2,3,4,5,6,7,8,9,10,x"}

InitApi ==
    /\ NoCount /\ NoLookup
    /\ program = "api"
    /\ pc = "serving"
    /\ data \in {read_csv(file) : file \in DataFiles}
    /\ request = <<>> /\ response = <<>>
    /\ sources = <<>> /\ ref_specs = <<>> /\ spec_db = <<>>
    /\ NoMatching
    /\ NoFill

\* GET /recommendations/compare?ids=...
Compare ==
    /\ program = "api"
    /\ \E ids \in CompareQueries :
          /\ request' = [endpoint |-> "compare", ids |-> ids]
          /\ response' = compare_smartphones(data, ids)
    /\ UNCHANGED <<program, pc, indexVars, matchVars, fillVars, spacenet_filled, proxyVars,
                   countVars, lookupVars, data>>

\* POST /recommendations/: DataService.get_recommendations and the answer
\* of the route; the answer of the model holds the listings without their
\* match_score.
Recommend ==
    /\ program = "api"
    /\ \E req \in RecommendationRequests :
          /\ request' = req
          /\ IF ~DataLoaded(data) THEN response' = Answer(503, <<>>)
             ELSE \E sorted \in SortValues(Filtered(data, req)) :
                      response' = [status |-> 200, body |-> HeadRows(sorted, req.limit),
                                   filters_applied |-> FiltersApplied(req)]
    /\ UNCHANGED <<program, pc, indexVars, matchVars, fillVars, spacenet_filled, proxyVars,
                   countVars, lookupVars, data>>

NextApi == Compare \/ Recommend

SpecApi == InitApi /\ [][NextApi]_vars

\* The ids of a compare request, and whether each is an integer.
RequestIds == SplitBy(request.ids, ",")

AllIntegers == \A k \in 1..Len(RequestIds) : IsIntLiteral(Strip(RequestIds[k]))

\* An id of the request is the id of a row of the data.
SomeIdExists ==
    /\ "id" \in DOMAIN data[1]
    /\ \E k \in 1..Len(RequestIds) : \E i \in 1..Len(data) :
           ParseInt(data[i].id) = IntOf(RequestIds[k])

\* C26: Compare endpoint status codes.  With data loaded, a request of more
\* than 10 ids is answered with 400, a request whose ids are not all
\* integers with 400, a request none of whose ids exists with 404; no
\* request of the model is answered with 500.
CompareStatusCodes ==
    request # <<>> /\ request.endpoint = "compare" /\ DataLoaded(data) =>
        /\ ~AllIntegers => response.status = 400
        /\ Len(RequestIds) > MaxCompared => response.status = 400
        /\ AllIntegers /\ Len(RequestIds) <= MaxCompared /\ ~SomeIdExists =>
               response.status = 404
        /\ response.status # 500

\* The value of a listing the filter of a request is about, in the column
\* of the service or in the column of the reconciled table.
Value(row, column, unified_column) ==
    IF column \in DOMAIN row THEN row[column] ELSE row[unified_column]

Supports5G(row) ==
    IF "is_5g" \in DOMAIN row THEN row.is_5g = "True" ELSE row.network = "5G"

\* C27: Recommendations honour every supplied filter.  Every listing
\* get_recommendations returns has its price within the budget and
\* satisfies min_ram, min_battery, brand and requires_5g when the request
\* gives them; the listings come in ascending price and are limit at most.
FiltersHonoured ==
    request # <<>> /\ request.endpoint = "recommendations" /\ DataLoaded(data) =>
        /\ Len(response.body) <= request.limit
        /\ \A k \in 1..(Len(response.body) - 1) :
               ParseFloat(response.body[k].price) <= ParseFloat(response.body[k + 1].price)
        /\ \A k \in 1..Len(response.body) :
               LET row == response.body[k]
               IN  /\ AtLeast(row.price, request.budget_min)
                   /\ AtMost(row.price, request.budget_max)
                   /\ request.min_ram # None =>
                          AtLeast(Value(row, "ram", "ram_gb"), request.min_ram)
                   /\ request.min_battery # None =>
                          AtLeast(Value(row, "battery", "battery_mah"), request.min_battery)
                   /\ request.brand # None => Lower(row.brand) = Lower(request.brand)
                   /\ request.requires_5g = "True" => Supports5G(row)

====
